---- MODULE Spec2Model ----
(***************************************************************************)
(* Scan-result normalisation of snyk/studio-mcp: the SARIF converter       *)
(* (package code) and the OSS/SCA converter (package oss).                 *)
(*                                                                         *)
(* Strings the code takes apart (paths, URIs, category names) are          *)
(* sequences of atoms, an atom being a run of characters that the code     *)
(* never splits: "/" is the path separator, "%61" a percent escape,        *)
(* "go.sum" a file name.  Two strings are equal iff their atom sequences   *)
(* are.  Strings the code only compares or copies are TLA+ strings.        *)
(* Strings the code measures and cuts (messages) are sequences of bytes,   *)
(* the k-th byte of the literal or character c being <<c, k>>.             *)
(*                                                                         *)
(* A conversion call consumes its input document item by item, as the      *)
(* loops of the code do: each loop iteration is one step whose input item  *)
(* is drawn from the pools below.                                          *)
(***************************************************************************)
EXTENDS Naturals, Integers, Sequences, FiniteSets, TLC

VARIABLES
    pc,              \* control point of the call in progress
    includeIgnores,  \* argument of both converters
    payload,         \* what json.Unmarshal makes of the input bytes
    rules,           \* runs[0].tool.driver.rules of the SARIF document
    baseDir,         \* basePath (SARIF) / workDir (OSS)
    seen,            \* the input items the loops have iterated over, in order
    issues,          \* the local slice `issues` of toIssues / convertScanResultToIssues
    errs,            \* the joined error `errs` of toIssues; <<>> is nil
    res,             \* OSS: index of the scan result being converted, 0 before the first
    displayTargetFile,  \* OSS: res.DisplayTargetFile
    duplicateCheckMap,  \* OSS: the keys convertScanResultToIssues has emitted
    allIssues,       \* OSS: the slice `allIssues` of ConvertToIssue
    retIssues,       \* the slice the exported function returned
    retErr,          \* the error the exported function returned; "nil" is nil
    issueSeverities,      \* package code: the map issueSeverities
    lockFilesToManifest,  \* package oss: the map lockFilesToManifestMap
    calls,           \* the conversion calls running side by side, by goroutine
    file,            \* package configure: the file a configure step works on
    fileOp,          \* package configure: the calls made on the file, latest last
    binding,         \* the McpLLMBinding and the goroutines around it
    tool             \* the tool call in progress in defaultHandler

\* the variables of one conversion call
locals == <<pc, includeIgnores, payload, rules, baseDir, seen, issues, errs, res,
            displayTargetFile, duplicateCheckMap, allIssues, retIssues, retErr>>

\* the variables of the process
shared == <<issueSeverities, lockFilesToManifest, calls>>

\* the variables of package configure
configure == <<file, fileOp>>

\* the variables of the MCP server
server == <<binding, tool>>

vars == <<locals, shared, configure, server>>

----------------------------------------------------------------------------
(* Bounds of the model. *)

\* locations (SARIF) or findings (OSS) in one input document
MaxItems == 2
\* rules in the SARIF rule catalog
MaxRules == 2
\* scan results (envelopes) in one OSS payload
MaxScanResults == 2
\* atoms in a display target file
MaxPathLen == 4
\* conversion calls running side by side
MaxCalls == 2
\* entries under mcpServers in a config file before the first call
MaxServers == 2
\* calls made on one file
MaxFileOps == 2
\* atoms in a .gitignore or a global rules file before the first call
MaxContentLen == 4
\* the largest exit code of a CLI process
MaxExitCode == 2
\* elements of a vulnerability's upgradePath and of its from
MaxPathSteps == 2
\* thread flow locations in the code flows of one result
MaxFlowLocs == 3
\* bits of the significand of a float64, scaled down from 53 so that the
\* integers a float64 cannot hold are within reach: every integer up to
\* 2^FloatPrecision is a float64, above it only every second one
FloatPrecision == 4

SeqsUpTo(S, n) == UNION {[1..k -> S] : k \in 0..n}

----------------------------------------------------------------------------
(* Text: a Go string as the sequence of the bytes of its UTF-8 encoding.    *)

\* a character of two bytes, such as U+00E9; every other character in the
\* model is ASCII and has one byte
TwoByteChars == {"U+00E9"}

\* len(c) for a character, or for a literal of ASCII characters
ByteLen(c) == IF c \in TwoByteChars THEN 2 ELSE Len(c)

\* the bytes of a character or of an ASCII literal
Bytes(c) == [k \in 1..ByteLen(c) |-> <<c, k>>]

\* the string of n times the character c
Repeat(c, n) == [k \in 1..(n * ByteLen(c)) |-> <<c, ((k - 1) % ByteLen(c)) + 1>>]

\* the concatenation of the bytes of a sequence of literals
RECURSIVE BytesOfAll(_)
BytesOfAll(atoms) == IF atoms = <<>> THEN <<>> ELSE Bytes(Head(atoms)) \o BytesOfAll(Tail(atoms))

----------------------------------------------------------------------------
(* Paths: path/filepath on a slash-separated file system, net/url.          *)
(* The path alphabet holds no "." or ".." element, so filepath.Clean only   *)
(* has repeated and trailing separators to remove.                          *)

Sep == "/"

RECURSIVE Clean(_)
Clean(p) ==
    IF p = <<>> THEN <<".">>
    ELSE IF Len(p) > 1 /\ p[Len(p)] = Sep THEN Clean(SubSeq(p, 1, Len(p) - 1))
    ELSE p

RECURSIVE SqueezeSep(_)
SqueezeSep(p) ==
    IF Len(p) < 2 THEN p
    ELSE IF p[1] = Sep /\ p[2] = Sep THEN SqueezeSep(Tail(p))
    ELSE <<p[1]>> \o SqueezeSep(Tail(p))

\* filepath.Join(a, b): empty elements are ignored, the rest joined by a
\* separator and cleaned; all empty gives the empty string.
FilepathJoin(a, b) ==
    IF a = <<>> /\ b = <<>> THEN <<>>
    ELSE IF a = <<>> THEN Clean(SqueezeSep(b))
    ELSE IF b = <<>> THEN Clean(SqueezeSep(a))
    ELSE Clean(SqueezeSep(a \o <<Sep>> \o b))

IsAbs(p) == p # <<>> /\ p[1] = Sep

RECURSIVE StripTrailingSep(_)
StripTrailingSep(p) ==
    IF p # <<>> /\ p[Len(p)] = Sep THEN StripTrailingSep(SubSeq(p, 1, Len(p) - 1))
    ELSE p

RECURSIVE AfterLastSep(_)
AfterLastSep(p) ==
    IF p = <<>> THEN <<>>
    ELSE IF p[Len(p)] = Sep THEN <<>>
    ELSE Append(AfterLastSep(SubSeq(p, 1, Len(p) - 1)), p[Len(p)])

\* filepath.Base
Base(p) ==
    IF p = <<>> THEN <<".">>
    ELSE LET s == StripTrailingSep(p)
         IN  IF s = <<>> THEN <<Sep>> ELSE AfterLastSep(s)

\* percent escapes of the URI alphabet: a well-formed one and its decoding,
\* and a malformed one
BadEscapes == {"%zz"}
Unescaped(atom) == IF atom = "%61" THEN "a" ELSE atom

ToAbsolutePath(base, relativePath) == FilepathJoin(base, relativePath)

\* url.PathUnescape: [ok, path]
DecodePath(encoded) ==
    IF \E i \in DOMAIN encoded : encoded[i] \in BadEscapes
    THEN [ok |-> FALSE, path |-> <<>>]
    ELSE [ok |-> TRUE, path |-> [i \in DOMAIN encoded |-> Unescaped(encoded[i])]]

----------------------------------------------------------------------------
(* SARIF converter, package code. *)

\* category names, letter by letter
CatSecurityLower == <<"s", "e", "c", "u", "r", "i", "t", "y">>
CatSecurityMixed == <<"S", "e", "c", "u", "r", "i", "t", "y">>
CatStyle == <<"s", "t", "y", "l", "e">>

\* strings.ToLower on one letter of the category alphabet
LowerLetter(c) == IF c = "S" THEN "s" ELSE c
ToLower(s) == [i \in DOMAIN s |-> LowerLetter(s[i])]

RuleIds == {"r1", "r2"}
CategoryLists == {<<CatSecurityLower>>, <<CatStyle, CatSecurityMixed>>, <<CatStyle>>}
Rules == [ID : RuleIds, Categories : CategoryLists, ShortDescription : {<<>>}]
\* codeClientSarif.Rule{}
ZeroRule == [ID |-> "", Categories |-> <<>>, ShortDescription |-> <<>>]

\* artifact URIs, relative to the scan directory
URIs == {<<"a", ".js">>, <<"%61", ".js">>, <<"%zz">>}
Regions == {[StartLine |-> l, StartColumn |-> 1, EndLine |-> l, EndColumn |-> 1] : l \in {1, 2}}
DefaultRegion == [StartLine |-> 1, StartColumn |-> 1, EndLine |-> 1, EndColumn |-> 1]

\* the suppressions of one result, by status
SuppressionLists ==
    {<<>>, <<"accepted">>, <<"rejected">>, <<"underReview", "accepted">>}

\* One location of one result: the fields of the result that toIssues reads,
\* and the location.
\* results of a security rule that vary the level and the suppressions
SarifItems ==
    [RuleID : {"r1"}, Level : {"error", "warning", "note"},
     Suppressions : SuppressionLists, URI : {<<"a", ".js">>},
     Region : {DefaultRegion}, CodeFlows : {<<>>}, Message : {<<>>}]

\* results of a security rule that vary the location
SarifPathItems ==
    [RuleID : {"r1"}, Level : {"error"}, Suppressions : {<<>>},
     URI : URIs, Region : Regions, CodeFlows : {<<>>}, Message : {<<>>}]

\* results that vary the rule; no catalog holds r3
SarifRuleItems ==
    [RuleID : RuleIds \cup {"r3"}, Level : {"error"}, Suppressions : {<<>>},
     URI : {<<"a", ".js">>}, Region : {DefaultRegion}, CodeFlows : {<<>>}, Message : {<<>>}]

isSecurityIssue(r) ==
    \E i \in DOMAIN r.Categories : ToLower(r.Categories[i]) = CatSecurityLower

\* a lookup that keeps the last rule with the id
getRuleLast(catalog, id) ==
    LET hits == {k \in DOMAIN catalog : catalog[k].ID = id}
    IN  IF hits = {} THEN ZeroRule
        ELSE catalog[CHOOSE k \in hits : \A j \in hits : j <= k]

RECURSIVE getRuleFrom(_, _, _)
getRuleFrom(catalog, id, i) ==
    IF i > Len(catalog) THEN ZeroRule
    ELSE IF catalog[i].ID = id THEN catalog[i]
    ELSE getRuleFrom(catalog, id, i + 1)

getRule(catalog, id) == getRuleFrom(catalog, id, 1)

issueSeverity(snykSeverity) ==
    CASE snykSeverity = "3" -> "High"
      [] snykSeverity = "2" -> "Medium"
      [] snykSeverity = "warning" -> "Medium"
      [] snykSeverity = "error" -> "High"
      [] OTHER -> "Low"

\* sarifutils.GetHighestSuppression: the status of the suppression that ranks
\* highest, accepted before underReview before rejected; "" when there is none
GetHighestSuppression(suppressions) ==
    LET has(st) == \E i \in DOMAIN suppressions : suppressions[i] = st
    IN  CASE has("accepted") -> "accepted"
          [] has("underReview") -> "underReview"
          [] has("rejected") -> "rejected"
          [] OTHER -> ""

\* any suppression counts as an ignore
AnySuppressionIgnores(suppressions) ==
    GetHighestSuppression(suppressions) # ""

GetIgnoreDetailsFromSuppressions(suppressions) ==
    GetHighestSuppression(suppressions) = "accepted"

\* math.Max, on float64 values that are integers
Max(a, b) == IF a >= b THEN a ELSE b

Abs(x) == IF x < 0 THEN 0 - x ELSE x

\* the distance between the float64 values around x >= 0: the least power of
\* two u with x < 2^FloatPrecision * u
RECURSIVE UlpFrom(_, _)
UlpFrom(x, u) == IF x < (2 ^ FloatPrecision) * u THEN u ELSE UlpFrom(x, 2 * u)

\* float64(x) for an int x: the nearest float64, the one with the even
\* significand when x is half way between two
Float64(x) ==
    LET u == UlpFrom(Abs(x), 1)
        q == Abs(x) \div u
        r == Abs(x) % u
        rounded == IF 2 * r < u THEN q * u
                   ELSE IF 2 * r > u THEN (q + 1) * u
                   ELSE IF q % 2 = 0 THEN q * u
                   ELSE (q + 1) * u
    IN  IF x < 0 THEN 0 - rounded ELSE rounded

\* the 0-based range of a location's region; int(f) of a float64 f that is an
\* integer within the ints is f
primaryRange(position) ==
    LET startLine == position.StartLine - 1
        endLine == Max(Float64(position.EndLine - 1), Float64(startLine))
        startCol == position.StartColumn - 1
        endCol == Max(Float64(position.EndColumn - 1), 0)
    IN  [Start |-> [Line |-> startLine, Character |-> startCol],
         End |-> [Line |-> endLine, Character |-> endCol]]

\* errors.Join
ErrorsJoin(a, b) == a \o b

\* const maxLength of getMessage
maxLengthSarif == 100

\* getMessage for a result with Message.Text text
getMessage(text, rule) ==
    LET full == IF rule.ShortDescription # <<>>
                THEN rule.ShortDescription \o Bytes(": ") \o text
                ELSE text
    IN  IF Len(full) > maxLengthSarif
        THEN SubSeq(full, 1, maxLengthSarif) \o Bytes("...")
        ELSE full

\* the decimal digits of n, one character each
RECURSIVE Digits(_)
Digits(n) ==
    IF n < 0 THEN <<"-">> \o Digits(0 - n)
    ELSE IF n < 10 THEN <<(<<"0", "1", "2", "3", "4", "5", "6", "7", "8", "9">>)[n + 1]>>
    ELSE Digits(n \div 10) \o Digits(n % 10)

\* fmt's %4d: the digits, padded with spaces on the left to four characters
RECURSIVE PadLeft(_)
PadLeft(str) == IF Len(str) >= 4 THEN str ELSE PadLeft(<<" ">> \o str)

\* a key that leaves the start line out
dedupKeyPathOnly(path, startLine) == path

\* fmt.Sprintf("%sL%4d", path, startLine)
dedupKey(path, startLine) == path \o <<"L">> \o PadLeft(Digits(startLine))

\* a range whose end column is decremented as well
flowRangeEndDecremented(region) ==
    [Start |-> [Line |-> region.StartLine - 1, Character |-> region.StartColumn - 1],
     End |-> [Line |-> region.EndLine - 1, Character |-> region.EndColumn - 1]]

\* the 0-based range of a thread flow location's region
flowRange(region) ==
    [Start |-> [Line |-> region.StartLine - 1, Character |-> region.StartColumn - 1],
     End |-> [Line |-> region.EndLine - 1, Character |-> region.EndColumn]]

\* The body of getCodeFlow's innermost loop for one thread flow location: what
\* it leaves in `dataflow` and `dedupMap`.
getCodeFlowLocation(tFlowLocation, base, st) ==
    LET decoded == DecodePath(ToAbsolutePath(base, tFlowLocation.URI))
        region == tFlowLocation.Region
        key == dedupKey(decoded.path, region.StartLine)
        d == [Position |-> Len(st.dataflow),
              FilePath |-> decoded.path,
              FlowRange |-> flowRange(region)]
    IN  IF ~decoded.ok THEN st
        ELSE IF key \in st.dedupMap THEN st
        ELSE [dataflow |-> Append(st.dataflow, d), dedupMap |-> st.dedupMap \cup {key}]

\* the loop over the locations of a thread flow
RECURSIVE getCodeFlowLocations(_, _, _)
getCodeFlowLocations(locations, base, st) ==
    IF locations = <<>> THEN st
    ELSE getCodeFlowLocations(Tail(locations), base,
             getCodeFlowLocation(Head(locations), base, st))

\* the loop over the thread flows of a code flow
RECURSIVE getCodeFlowThreadFlows(_, _, _)
getCodeFlowThreadFlows(threadFlows, base, st) ==
    IF threadFlows = <<>> THEN st
    ELSE getCodeFlowThreadFlows(Tail(threadFlows), base,
             getCodeFlowLocations(Head(threadFlows), base, st))

\* the loop over the code flows of a result
RECURSIVE getCodeFlowFlows(_, _, _)
getCodeFlowFlows(flows, base, st) ==
    IF flows = <<>> THEN st
    ELSE getCodeFlowFlows(Tail(flows), base,
             getCodeFlowThreadFlows(Head(flows), base, st))

getCodeFlow(flows, base) ==
    getCodeFlowFlows(flows, base, [dataflow |-> <<>>, dedupMap |-> {}]).dataflow

\* The body of toIssues' inner loop for one location of one result: what it
\* leaves in `issues` and `errs`.
toIssuesLocation(item, isIncludeIgnores, catalog, base, curIssues, curErrs) ==
    LET decoded == DecodePath(ToAbsolutePath(base, item.URI))
        myRange == primaryRange(item.Region)
        testRule == getRule(catalog, item.RuleID)
        isIgnored == GetIgnoreDetailsFromSuppressions(item.Suppressions)
        hasPos == myRange.Start.Line >= 0 /\ myRange.Start.Character >= 0
        d == [ID |-> item.RuleID,
              Severity |-> issueSeverity(item.Level),
              Message |-> getMessage(item.Message, testRule),
              Dataflow |-> getCodeFlow(item.CodeFlows, base),
              FilePath |-> decoded.path,
              Line |-> IF hasPos THEN myRange.Start.Line + 1 ELSE 0,
              Column |-> IF hasPos THEN myRange.Start.Character + 1 ELSE 0,
              IsIgnored |-> isIgnored]
    IN  IF ~decoded.ok
        THEN [issues |-> curIssues, errs |-> ErrorsJoin(curErrs, <<"invalid URL escape">>)]
        ELSE IF ~isSecurityIssue(testRule)
        THEN [issues |-> curIssues, errs |-> curErrs]
        ELSE IF ~isIncludeIgnores /\ isIgnored
        THEN [issues |-> curIssues, errs |-> curErrs]
        ELSE [issues |-> Append(curIssues, d), errs |-> curErrs]

\* json.Unmarshal of the payload: "ok", a syntax error (nothing is decoded) or
\* a type mismatch (the rest of the document is decoded, an error is returned)
Unmarshals == {"ok", "syntax", "type"}

\* len(s.sarif.Sarif.Runs): the payload is decoded as the SARIF document
\* itself, so a document wrapped under a "sarif" key decodes to no runs
sarifRuns(p) == IF p.envelope THEN 0 ELSE p.runs

\* loops that go over the locations of every run
sarifLocationsAllRuns(p) == sarifRuns(p) * p.n

\* the number of locations the loops of toIssues go over, those of runs[0];
\* every run of the document has p.n
sarifLocations(p) == IF sarifRuns(p) = 0 THEN 0 ELSE p.n

\* a call that goes on with what a type mismatch left decoded
SarifUnmarshalKeepsDecoded ==
    /\ pc = "sarif"
    /\ IF payload.unmarshal = "syntax"
       THEN /\ pc' = "done"
            /\ retIssues' = <<>>
            /\ retErr' = "failed to parse SARIF JSON"
       ELSE /\ pc' = "toIssues"
            /\ UNCHANGED <<retIssues, retErr>>
    /\ UNCHANGED <<shared, configure, server, includeIgnores, payload, rules, baseDir, seen, issues, errs, res,
                   displayTargetFile, duplicateCheckMap, allIssues>>

\* ConvertSARIFJSONToIssues up to the call of toIssues
SarifUnmarshal ==
    /\ pc = "sarif"
    /\ IF payload.unmarshal # "ok"
       THEN /\ pc' = "done"
            /\ retIssues' = <<>>
            /\ retErr' = "failed to parse SARIF JSON"
       ELSE /\ pc' = "toIssues"
            /\ UNCHANGED <<retIssues, retErr>>
    /\ UNCHANGED <<shared, configure, server, includeIgnores, payload, rules, baseDir, seen, issues, errs, res,
                   displayTargetFile, duplicateCheckMap, allIssues>>

\* an iteration that puts its Issue in front of the others
SarifLocationPrepends(pool) ==
    /\ pc = "toIssues"
    /\ Len(seen) < sarifLocations(payload)
    /\ \E item \in pool :
         LET out == toIssuesLocation(item, includeIgnores, rules, baseDir, <<>>, errs)
         IN  /\ issues' = out.issues \o issues
             /\ errs' = out.errs
             /\ seen' = Append(seen, item)
    /\ UNCHANGED <<shared, configure, server, pc, includeIgnores, payload, rules, baseDir, res, displayTargetFile,
                   duplicateCheckMap, allIssues, retIssues, retErr>>

\* one iteration of the loops of toIssues over runs[0].results[].locations[]
SarifLocation(pool) ==
    /\ pc = "toIssues"
    /\ Len(seen) < sarifLocations(payload)
    /\ \E item \in pool :
         LET out == toIssuesLocation(item, includeIgnores, rules, baseDir, issues, errs)
         IN  /\ issues' = out.issues
             /\ errs' = out.errs
             /\ seen' = Append(seen, item)
    /\ UNCHANGED <<shared, configure, server, pc, includeIgnores, payload, rules, baseDir, res, displayTargetFile,
                   duplicateCheckMap, allIssues, retIssues, retErr>>

\* what ConvertSARIFJSONToIssues returns for toIssues' (issues, errs)
sarifReturn(curIssues, curErrs) ==
    IF curErrs # <<>>
    THEN [issues |-> <<>>, err |-> "failed to convert SARIF to issues"]
    ELSE [issues |-> curIssues, err |-> "nil"]

\* toIssues returns (no runs, or the loops are over) and
\* ConvertSARIFJSONToIssues returns
SarifReturn ==
    /\ pc = "toIssues"
    /\ Len(seen) = sarifLocations(payload)
    /\ LET out == sarifReturn(issues, errs)
       IN  /\ retIssues' = out.issues
           /\ retErr' = out.err
    /\ pc' = "done"
    /\ UNCHANGED <<shared, configure, server, includeIgnores, payload, rules, baseDir, seen, issues, errs, res,
                   displayTargetFile, duplicateCheckMap, allIssues>>

----------------------------------------------------------------------------
(* The lookup tables of the process. *)

LockFiles ==
    {"Gemfile.lock", "package-lock.json", "yarn.lock", "Gopkg.lock", "go.sum",
     "composer.lock", "Podfile.lock", "poetry.lock"}

\* the value the map holds for a file name; the empty string for a name that
\* is no key of it
lockFilesToManifestMap(fileName) ==
    IF Len(fileName) # 1 THEN <<>>
    ELSE CASE fileName[1] = "Gemfile.lock" -> <<"Gemfile">>
           [] fileName[1] = "package-lock.json" -> <<"package.json">>
           [] fileName[1] = "yarn.lock" -> <<"package.json">>
           [] fileName[1] = "Gopkg.lock" -> <<"Gopkg.toml">>
           [] fileName[1] = "go.sum" -> <<"go.mod">>
           [] fileName[1] = "composer.lock" -> <<"composer.json">>
           [] fileName[1] = "Podfile.lock" -> <<"Podfile">>
           [] fileName[1] = "poetry.lock" -> <<"pyproject.toml">>
           [] OTHER -> <<>>

\* the keys of issueSeverities
SeverityKeys == {"3", "2", "warning", "error"}

\* the tables as the package initialisers leave them, and no call running
\* no configure step, no server, no tool call
IdleInit ==
    /\ file = <<>>
    /\ fileOp = <<>>
    /\ binding = <<>>
    /\ tool = <<>>

SharedInit ==
    /\ issueSeverities = [k \in SeverityKeys |-> issueSeverity(k)]
    /\ lockFilesToManifest = [f \in {<<name>> : name \in LockFiles} |-> lockFilesToManifestMap(f)]
    /\ calls = <<>>

----------------------------------------------------------------------------
(* SARIF converter: the calls. *)

\* SARIF payloads: how they unmarshal, whether the document is wrapped under
\* a "sarif" key, the number of runs and of locations in each run
SarifPayloads ==
    [format : {"sarif"}, unmarshal : Unmarshals, envelope : BOOLEAN,
     runs : 0..2, n : 0..MaxItems]

\* rule catalogs of the documents that do not vary the rule
SarifCatalogs ==
    {<<[ID |-> "r1", Categories |-> <<CatSecurityLower>>, ShortDescription |-> <<>>]>>,
     <<[ID |-> "r2", Categories |-> <<CatStyle>>, ShortDescription |-> <<>>],
       [ID |-> "r1", Categories |-> <<CatStyle, CatSecurityMixed>>,
        ShortDescription |-> <<>>]>>}

InitSarifWith(catalogs) ==
    /\ SharedInit
    /\ IdleInit
    /\ pc = "sarif"
    /\ includeIgnores \in BOOLEAN
    /\ payload \in SarifPayloads
    /\ payload.runs = 0 => payload.n = 0
    /\ rules \in catalogs
    /\ baseDir = <<Sep, "w">>
    /\ seen = <<>>
    /\ issues = <<>>
    /\ errs = <<>>
    /\ res = 0
    /\ displayTargetFile = <<>>
    /\ duplicateCheckMap = {}
    /\ allIssues = <<>>
    /\ retIssues = <<>>
    /\ retErr = "nil"

\* ConvertSARIFJSONToIssues over documents that vary the locations
InitSarifPaths == InitSarifWith(SarifCatalogs)
NextSarifPaths == SarifUnmarshal \/ SarifLocation(SarifPathItems) \/ SarifReturn
SpecSarifPaths == InitSarifPaths /\ [][NextSarifPaths]_vars

\* ConvertSARIFJSONToIssues over documents that vary the rule catalog and the
\* results' rule
InitSarifRules == InitSarifWith(SeqsUpTo(Rules, MaxRules))
NextSarifRules == SarifUnmarshal \/ SarifLocation(SarifRuleItems) \/ SarifReturn
SpecSarifRules == InitSarifRules /\ [][NextSarifRules]_vars

\* a line number past the integers every one of which is a float64
HugeLine == (2 ^ FloatPrecision) + 2

\* regions: absent (zero) and present bounds, an end before the start, and
\* line numbers past the exact range of float64
RegionValues ==
    [StartLine : {0, 1, 5, HugeLine}, StartColumn : {0, 1, 3},
     EndLine : {0, 5, HugeLine + 2}, EndColumn : {0, 1, 10}]

\* results of a security rule that vary the region
SarifRegionItems ==
    [RuleID : {"r1"}, Level : {"error"}, Suppressions : {<<>>},
     URI : {<<"a", ".js">>}, Region : RegionValues, CodeFlows : {<<>>}, Message : {<<>>}]

\* ConvertSARIFJSONToIssues over documents of at most one location that vary
\* its region
InitSarifRegions == InitSarifWith(SarifCatalogs) /\ payload.n <= 1
NextSarifRegions == SarifUnmarshal \/ SarifLocation(SarifRegionItems) \/ SarifReturn
SpecSarifRegions == InitSarifRegions /\ [][NextSarifRegions]_vars

\* thread flow locations: two that decode to the same path and have the same
\* start line but not the same end, one on another line, one in another
\* file, one whose URI does not decode
FlowLocations ==
    {[URI |-> <<"a", ".js">>,
      Region |-> [StartLine |-> 10, StartColumn |-> 3, EndLine |-> 10, EndColumn |-> 7]],
     [URI |-> <<"%61", ".js">>,
      Region |-> [StartLine |-> 10, StartColumn |-> 5, EndLine |-> 11, EndColumn |-> 9]],
     [URI |-> <<"a", ".js">>,
      Region |-> [StartLine |-> 2, StartColumn |-> 1, EndLine |-> 1, EndColumn |-> 0]],
     [URI |-> <<"b", ".js">>,
      Region |-> [StartLine |-> 10, StartColumn |-> 3, EndLine |-> 10, EndColumn |-> 7]],
     [URI |-> <<"%zz">>,
      Region |-> [StartLine |-> 10, StartColumn |-> 3, EndLine |-> 10, EndColumn |-> 7]]}

\* the code flows of a result: up to MaxFlowLocs locations in one thread flow,
\* in two thread flows of one code flow, or in two code flows
CodeFlowsOf(locations) ==
    {<<<<locations>>>>}
    \cup {<<<<SubSeq(locations, 1, k), SubSeq(locations, k + 1, Len(locations))>>>> :
              k \in 0..Len(locations)}
    \cup {<<<<SubSeq(locations, 1, k)>>, <<SubSeq(locations, k + 1, Len(locations))>>>> :
              k \in 0..Len(locations)}

CodeFlows == {<<>>} \cup UNION {CodeFlowsOf(q) : q \in SeqsUpTo(FlowLocations, MaxFlowLocs)}

\* results of a security rule that vary the code flows
SarifFlowItems ==
    [RuleID : {"r1"}, Level : {"error"}, Suppressions : {<<>>},
     URI : {<<"a", ".js">>}, Region : {DefaultRegion}, CodeFlows : CodeFlows,
     Message : {<<>>}]

\* ConvertSARIFJSONToIssues over documents of at most one location that vary
\* the code flows of its result
InitSarifFlows == InitSarifWith(SarifCatalogs) /\ payload.n <= 1
NextSarifFlows == SarifUnmarshal \/ SarifLocation(SarifFlowItems) \/ SarifReturn
SpecSarifFlows == InitSarifFlows /\ [][NextSarifFlows]_vars

----------------------------------------------------------------------------
(* OSS converter, package oss. *)

\* strings.Index: the first position where old occurs in str, 0 if none
RECURSIVE StringsIndexFrom(_, _, _)
StringsIndexFrom(str, old, i) ==
    IF i + Len(old) - 1 > Len(str) THEN 0
    ELSE IF SubSeq(str, i, i + Len(old) - 1) = old THEN i
    ELSE StringsIndexFrom(str, old, i + 1)

\* strings.Replace(str, old, new, 1), old not empty
StringsReplaceFirst(str, old, new) ==
    LET i == StringsIndexFrom(str, old, 1)
    IN  IF i = 0 THEN str
        ELSE SubSeq(str, 1, i - 1) \o new \o SubSeq(str, i + Len(old), Len(str))

getAbsTargetFilePath(workDir, target) ==
    LET fileName == Base(target)
        manifestFileName == lockFilesToManifestMap(fileName)
        targetFilePath == StringsReplaceFirst(target, fileName, manifestFileName)
    IN  IF manifestFileName = <<>> THEN target
        ELSE IF IsAbs(targetFilePath) THEN targetFilePath
        ELSE FilepathJoin(workDir, targetFilePath)

\* an element of UpgradePath: a string (a package version), or the JSON false
\* that stands for "no upgrade of this step"
NoStep == [isString |-> FALSE, s |-> ""]
Step(v) == [isString |-> TRUE, s |-> v]

\* an upgrade message read from the first element of the path
getUpgradeMessageOffByOne(i) ==
    IF Len(i.UpgradePath) > 1
    THEN IF i.UpgradePath[1].isString
         THEN <<"Upgrade to ", i.UpgradePath[1].s>>
         ELSE <<>>
    ELSE <<>>

getUpgradeMessage(i) ==
    IF Len(i.UpgradePath) > 1
    THEN IF i.UpgradePath[2].isString
         THEN <<"Upgrade to ", i.UpgradePath[2].s>>
         ELSE <<>>
    ELSE <<>>

getOutdatedDependencyMessage(i) ==
    <<"Your dependencies are out of date, otherwise you would be using a newer ",
      i.Name, " than ", i.Name, "@", i.Version, ". ">>
    \o (IF i.PackageManager \in {"npm", "yarn", "yarn-workspace"}
        THEN <<"Try relocking your lockfile or deleting node_modules and reinstalling your dependencies. If the problem persists, one of your dependencies may be bundling outdated modules.">>
        ELSE <<"Try reinstalling your dependencies. If the problem persists, one of your dependencies may be bundling outdated modules.">>)

getRemediation(i) ==
    LET upgradeMessage == getUpgradeMessage(i)
        isOutdated == /\ upgradeMessage # <<>>
                      /\ Len(i.UpgradePath) > 1
                      /\ Len(i.From) > 1
                      /\ i.UpgradePath[2] = Step(i.From[2])
    IN  IF i.IsUpgradable \/ i.IsPatchable
        THEN IF isOutdated
             THEN IF i.IsPatchable THEN upgradeMessage
                  ELSE getOutdatedDependencyMessage(i)
             ELSE upgradeMessage
        ELSE <<>>

\* const maxLength of toIssue
maxLengthOss == 200

\* the message of toIssue
toIssueMessage(issue) ==
    LET message == issue.Title \o Bytes(" affecting package ") \o Bytes(issue.PackageName)
                       \o Bytes(". ") \o BytesOfAll(getRemediation(issue))
    IN  IF Len(message) > maxLengthOss
        THEN SubSeq(message, 1, maxLengthOss) \o Bytes("... (Snyk)")
        ELSE message

toIssue(issue, targetFilePath) ==
    [ID |-> issue.Id,
     Title |-> issue.Title,
     Message |-> toIssueMessage(issue),
     Severity |-> issue.Severity,
     PackageName |-> issue.PackageName,
     Version |-> issue.Version,
     Ecosystem |-> issue.PackageManager,
     Remediation |-> getRemediation(issue),
     FilePath |-> targetFilePath,
     IsIgnored |-> issue.IsIgnored]

\* The body of the loop of convertScanResultToIssues for one vulnerability:
\* what it leaves in `issues` and `duplicateCheckMap`.
convertScanResultVulnerability(issue, isIncludeIgnores, workDir, target, curIssues, curMap) ==
    LET targetFilePath == getAbsTargetFilePath(workDir, target)
        duplicateKey == <<targetFilePath, issue.Id, issue.PackageName>>
    IN  IF ~isIncludeIgnores /\ issue.IsIgnored
        THEN [issues |-> curIssues, map |-> curMap]
        ELSE IF duplicateKey \in curMap
        THEN [issues |-> curIssues, map |-> curMap]
        ELSE [issues |-> Append(curIssues, toIssue(issue, targetFilePath)),
              map |-> curMap \cup {duplicateKey}]

\* strings.HasPrefix(output, "[")
hasArrayPrefix(p) == p.array /\ ~p.leadingSpace

\* whether json.Unmarshal fails in the branch ConvertOssJsonToIssues takes: the
\* payload itself does not unmarshal, or it is an array decoded into one ScanResult
ossUnmarshalFails(p) ==
    \/ p.unmarshal # "ok"
    \/ p.array /\ ~hasArrayPrefix(p)

\* ConvertOssJsonToIssues up to the call of ConvertToIssue
OssUnmarshal ==
    /\ pc = "oss"
    /\ IF ossUnmarshalFails(payload)
       THEN /\ pc' = "done"
            /\ retIssues' = <<>>
            /\ retErr' = "couldn't unmarshal CLI response"
       ELSE /\ pc' = "ConvertToIssue"
            /\ UNCHANGED <<retIssues, retErr>>
    /\ UNCHANGED <<shared, configure, server, includeIgnores, payload, rules, baseDir, seen, issues, errs, res,
                   displayTargetFile, duplicateCheckMap, allIssues>>

\* ConvertToIssue takes the next scan result and calls convertScanResultToIssues
OssScanResult(files) ==
    /\ pc = "ConvertToIssue"
    /\ res < Len(payload.sizes)
    /\ res' = res + 1
    /\ displayTargetFile' \in files
    /\ duplicateCheckMap' = {}
    /\ issues' = <<>>
    /\ pc' = "convertScanResultToIssues"
    /\ UNCHANGED <<shared, configure, server, includeIgnores, payload, rules, baseDir, seen, errs, allIssues,
                   retIssues, retErr>>

\* the vulnerabilities of scan result r iterated over so far
SeenOf(r) == Cardinality({k \in DOMAIN seen : seen[k].res = r})

\* one iteration of the loop of convertScanResultToIssues
OssVulnerability(pool) ==
    /\ pc = "convertScanResultToIssues"
    /\ SeenOf(res) < payload.sizes[res]
    /\ \E issue \in pool :
         LET out == convertScanResultVulnerability(issue, includeIgnores, baseDir,
                        displayTargetFile, issues, duplicateCheckMap)
         IN  /\ issues' = out.issues
             /\ duplicateCheckMap' = out.map
             /\ seen' = Append(seen, [res |-> res, target |-> displayTargetFile, issue |-> issue])
    /\ UNCHANGED <<shared, configure, server, pc, includeIgnores, payload, rules, baseDir, errs, res,
                   displayTargetFile, allIssues, retIssues, retErr>>

\* convertScanResultToIssues returns and ConvertToIssue appends its issues
OssScanResultReturn ==
    /\ pc = "convertScanResultToIssues"
    /\ SeenOf(res) = payload.sizes[res]
    /\ allIssues' = allIssues \o issues
    /\ pc' = "ConvertToIssue"
    /\ UNCHANGED <<shared, configure, server, includeIgnores, payload, rules, baseDir, seen, issues, errs, res,
                   displayTargetFile, duplicateCheckMap, retIssues, retErr>>

\* ConvertToIssue and ConvertOssJsonToIssues return
OssReturn ==
    /\ pc = "ConvertToIssue"
    /\ res = Len(payload.sizes)
    /\ retIssues' = allIssues
    /\ retErr' = "nil"
    /\ pc' = "done"
    /\ UNCHANGED <<shared, configure, server, includeIgnores, payload, rules, baseDir, seen, issues, errs, res,
                   displayTargetFile, duplicateCheckMap, allIssues>>

RECURSIVE SumSeq(_)
SumSeq(q) == IF q = <<>> THEN 0 ELSE Head(q) + SumSeq(Tail(q))

\* OSS payloads: how they unmarshal, whether the JSON is an array of scan
\* results or one scan result, whether white space precedes it, and the number
\* of vulnerabilities of each scan result
OssPayloads ==
    {p \in [format : {"oss"}, unmarshal : Unmarshals, array : BOOLEAN,
            leadingSpace : BOOLEAN, sizes : SeqsUpTo(0..MaxItems, MaxScanResults)] :
        /\ SumSeq(p.sizes) <= MaxItems
        /\ ~p.array => Len(p.sizes) = 1}

\* a vulnerability with no remediation data
PlainVulnerabilities ==
    [Id : {"SNYK-1", "SNYK-2"}, PackageName : {"lodash"}, Name : {"lodash"},
     Version : {"1.0"}, Severity : {"high", ""}, IsIgnored : BOOLEAN,
     IsUpgradable : {FALSE}, IsPatchable : {FALSE}, UpgradePath : {<<>>},
     From : {<<>>}, PackageManager : {"npm"}, Title : {<<>>}]

TargetFiles == {<<"go.sum">>, <<"pom.xml">>}

InitOssWith(payloads) ==
    /\ SharedInit
    /\ IdleInit
    /\ pc = "oss"
    /\ includeIgnores \in BOOLEAN
    /\ payload \in payloads
    /\ rules = <<>>
    /\ baseDir = <<Sep, "w">>
    /\ seen = <<>>
    /\ issues = <<>>
    /\ errs = <<>>
    /\ res = 0
    /\ displayTargetFile = <<>>
    /\ duplicateCheckMap = {}
    /\ allIssues = <<>>
    /\ retIssues = <<>>
    /\ retErr = "nil"

NextOss ==
    \/ OssUnmarshal
    \/ OssScanResult(TargetFiles)
    \/ OssVulnerability(PlainVulnerabilities)
    \/ OssScanResultReturn
    \/ OssReturn

\* Both converters: SARIF documents that vary levels and suppressions, OSS
\* payloads that vary the scan results and the vulnerabilities' id, severity
\* and ignore flag
Init == InitSarifWith(SarifCatalogs) \/ InitOssWith(OssPayloads)
Next == SarifUnmarshal \/ SarifLocation(SarifItems) \/ SarifReturn \/ NextOss
Spec == Init /\ [][Next]_vars

\* ConvertOssJsonToIssues over one scan result with one vulnerability, varying
\* the display target file
PathAtoms == {Sep, "app", "go.sum", ".bak", "pom.xml"}
OneVulnerabilityPayloads ==
    {p \in OssPayloads : p.unmarshal = "ok" /\ ~p.array /\ ~p.leadingSpace /\ p.sizes = <<1>>}
OneVulnerability == {v \in PlainVulnerabilities : v.Id = "SNYK-1" /\ v.Severity = "high"}

InitRemap == InitOssWith(OneVulnerabilityPayloads)
NextRemap ==
    \/ OssUnmarshal
    \/ OssScanResult(SeqsUpTo(PathAtoms, MaxPathLen))
    \/ OssVulnerability(OneVulnerability)
    \/ OssScanResultReturn
    \/ OssReturn
SpecRemap == InitRemap /\ [][NextRemap]_vars

\* ConvertOssJsonToIssues over one scan result with one vulnerability, varying
\* the vulnerability's remediation data
Versions == {"1.0", "2.0"}
UpgradeSteps == {NoStep} \cup {Step(v) : v \in Versions}
RemediationVulnerabilities ==
    [Id : {"SNYK-1"}, PackageName : {"lodash"}, Name : {"lodash"},
     Version : {"1.0"}, Severity : {"high"}, IsIgnored : {FALSE},
     IsUpgradable : BOOLEAN, IsPatchable : BOOLEAN,
     UpgradePath : SeqsUpTo(UpgradeSteps, MaxPathSteps),
     From : SeqsUpTo(Versions, MaxPathSteps),
     PackageManager : {"npm", "yarn", "yarn-workspace", "maven"}, Title : {<<>>}]

InitRemediation == InitOssWith(OneVulnerabilityPayloads)
NextRemediation ==
    \/ OssUnmarshal
    \/ OssScanResult({<<"pom.xml">>})
    \/ OssVulnerability(RemediationVulnerabilities)
    \/ OssScanResultReturn
    \/ OssReturn
SpecRemediation == InitRemediation /\ [][NextRemediation]_vars

\* message texts around the limit of getMessage, of ASCII characters and of
\* two-byte characters
SarifTexts ==
    {Repeat("x", n) : n \in {0, maxLengthSarif - 4, maxLengthSarif - 3, maxLengthSarif,
                             maxLengthSarif + 1, maxLengthSarif + 50}}
    \cup {Repeat("U+00E9", 60), Repeat("x", 1) \o Repeat("U+00E9", 60), Repeat("U+00E9", 150)}

\* results of a security rule that vary the message
SarifMessageItems ==
    [RuleID : {"r1"}, Level : {"error"}, Suppressions : {<<>>},
     URI : {<<"a", ".js">>}, Region : {DefaultRegion}, CodeFlows : {<<>>},
     Message : SarifTexts]

\* a security rule without and with a short description
MessageCatalogs ==
    {<<[ID |-> "r1", Categories |-> <<CatSecurityLower>>, ShortDescription |-> sd]>> :
        sd \in {<<>>, Repeat("d", 2)}}

\* titles around the limit of toIssue: the rest of the message of a finding
\* of package lodash has 27 bytes without a remediation and 41 with "Upgrade
\* to 2.0"
OssTitles ==
    {Repeat("t", n) : n \in {0, maxLengthOss - 41, maxLengthOss - 40, maxLengthOss - 27,
                             maxLengthOss - 26, maxLengthOss + 50}}
    \cup {Repeat("U+00E9", 100)}

\* vulnerabilities that vary the title, without a remediation and with the
\* upgrade message
MessageVulnerabilities ==
    [Id : {"SNYK-1"}, PackageName : {"lodash"}, Name : {"lodash"},
     Version : {"1.0"}, Severity : {"high"}, IsIgnored : {FALSE},
     IsUpgradable : BOOLEAN, IsPatchable : {FALSE},
     UpgradePath : {<<NoStep, Step("2.0")>>}, From : {<<"1.0", "1.0">>},
     PackageManager : {"npm"}, Title : OssTitles]

\* Both converters over documents of one result or finding that vary its
\* message
InitMessages ==
    \/ InitSarifWith(MessageCatalogs) /\ payload.n <= 1
    \/ InitOssWith(OneVulnerabilityPayloads)
NextMessages ==
    \/ SarifUnmarshal
    \/ SarifLocation(SarifMessageItems)
    \/ SarifReturn
    \/ OssUnmarshal
    \/ OssScanResult({<<"pom.xml">>})
    \/ OssVulnerability(MessageVulnerabilities)
    \/ OssScanResultReturn
    \/ OssReturn
SpecMessages == InitMessages /\ [][NextMessages]_vars

----------------------------------------------------------------------------
(* Conversion calls side by side.  A call touches the process's state at    *)
(* one place, its look-up in a table: issueSeverity reads issueSeverities,  *)
(* getAbsTargetFilePath reads lockFilesToManifestMap.  All else it works on *)
(* is its own arguments and local variables.  A call is two steps here, the *)
(* look-up and the rest, and the steps of the calls interleave.             *)

Levels == {"error", "warning", "note", "3"}
CallTargets == {<<"go.sum">>, <<"pom.xml">>, <<"app", Sep, "yarn.lock">>}

\* a call about to start: of ConvertSARIFJSONToIssues for a result of a level,
\* or of ConvertOssJsonToIssues for a scan result of a display target file
NewCalls ==
    [kind : {"sarif"}, level : Levels, target : {<<>>}, pc : {"start"},
     sev : {""}, ok : {FALSE}, manifestFileName : {<<>>},
     Severity : {""}, FilePath : {<<>>}]
    \cup
    [kind : {"oss"}, level : {""}, target : CallTargets, pc : {"start"},
     sev : {""}, ok : {FALSE}, manifestFileName : {<<>>},
     Severity : {""}, FilePath : {<<>>}]

\* a look-up that stores the name it did not find
getAbsTargetFilePathLookupStores(c) ==
    /\ calls[c].kind = "oss" /\ calls[c].pc = "start"
    /\ LET fileName == Base(calls[c].target)
           found == fileName \in DOMAIN lockFilesToManifest
       IN  /\ calls' = [calls EXCEPT ![c].pc = "found",
                                     ![c].manifestFileName =
                                         IF found THEN lockFilesToManifest[fileName] ELSE <<>>]
           /\ lockFilesToManifest' =
                 IF found THEN lockFilesToManifest
                 ELSE [f \in DOMAIN lockFilesToManifest \cup {fileName} |->
                          IF f = fileName THEN fileName ELSE lockFilesToManifest[f]]
    /\ UNCHANGED <<locals, configure, server, issueSeverities>>

\* sev, ok := issueSeverities[snykSeverity]
issueSeverityLookup(c) ==
    /\ calls[c].kind = "sarif" /\ calls[c].pc = "start"
    /\ LET found == calls[c].level \in DOMAIN issueSeverities
       IN  calls' = [calls EXCEPT ![c].pc = "found",
                                  ![c].ok = found,
                                  ![c].sev = IF found THEN issueSeverities[calls[c].level]
                                             ELSE ""]
    /\ UNCHANGED <<locals, configure, server, issueSeverities, lockFilesToManifest>>

\* the rest of issueSeverity, and the Issue's Severity
issueSeverityReturn(c) ==
    /\ calls[c].kind = "sarif" /\ calls[c].pc = "found"
    /\ calls' = [calls EXCEPT ![c].pc = "done",
                              ![c].Severity = IF ~calls[c].ok THEN "Low" ELSE calls[c].sev]
    /\ UNCHANGED <<locals, configure, server, issueSeverities, lockFilesToManifest>>

\* manifestFileName := lockFilesToManifestMap[fileName]
getAbsTargetFilePathLookup(c) ==
    /\ calls[c].kind = "oss" /\ calls[c].pc = "start"
    /\ LET fileName == Base(calls[c].target)
       IN  calls' = [calls EXCEPT ![c].pc = "found",
                                  ![c].manifestFileName =
                                      IF fileName \in DOMAIN lockFilesToManifest
                                      THEN lockFilesToManifest[fileName] ELSE <<>>]
    /\ UNCHANGED <<locals, configure, server, issueSeverities, lockFilesToManifest>>

\* the rest of getAbsTargetFilePath, and the Issue's FilePath
getAbsTargetFilePathReturn(c) ==
    /\ calls[c].kind = "oss" /\ calls[c].pc = "found"
    /\ LET target == calls[c].target
           manifestFileName == calls[c].manifestFileName
           targetFilePath == StringsReplaceFirst(target, Base(target), manifestFileName)
       IN  calls' = [calls EXCEPT ![c].pc = "done",
                                  ![c].FilePath =
                                      IF manifestFileName = <<>> THEN target
                                      ELSE IF IsAbs(targetFilePath) THEN targetFilePath
                                      ELSE FilepathJoin(baseDir, targetFilePath)]
    /\ UNCHANGED <<locals, configure, server, issueSeverities, lockFilesToManifest>>

\* up to MaxCalls calls start together
InitConcurrent ==
    /\ issueSeverities = [k \in SeverityKeys |-> issueSeverity(k)]
    /\ lockFilesToManifest = [f \in {<<name>> : name \in LockFiles} |-> lockFilesToManifestMap(f)]
    /\ calls \in UNION {[1..k -> NewCalls] : k \in 1..MaxCalls}
    /\ IdleInit
    /\ pc = "done"
    /\ includeIgnores = FALSE
    /\ payload = [format |-> "none", unmarshal |-> "ok"]
    /\ rules = <<>>
    /\ baseDir = <<Sep, "w">>
    /\ seen = <<>>
    /\ issues = <<>>
    /\ errs = <<>>
    /\ res = 0
    /\ displayTargetFile = <<>>
    /\ duplicateCheckMap = {}
    /\ allIssues = <<>>
    /\ retIssues = <<>>
    /\ retErr = "nil"

NextConcurrent ==
    \E c \in DOMAIN calls :
        \/ issueSeverityLookup(c)
        \/ issueSeverityReturn(c)
        \/ getAbsTargetFilePathLookup(c)
        \/ getAbsTargetFilePathReturn(c)

SpecConcurrent == InitConcurrent /\ [][NextConcurrent]_vars

----------------------------------------------------------------------------
(* Package configure.  A file is what os.Stat and os.ReadFile give of it;   *)
(* a call on it is one step, from its os.Stat to its return.                *)

\* every variable but those of package configure is at rest
ConfigureOnly ==
    /\ SharedInit
    /\ binding = <<>>
    /\ tool = <<>>
    /\ pc = "done"
    /\ includeIgnores = FALSE
    /\ payload = [format |-> "none", unmarshal |-> "ok"]
    /\ rules = <<>>
    /\ baseDir = <<Sep, "w">>
    /\ seen = <<>>
    /\ issues = <<>>
    /\ errs = <<>>
    /\ res = 0
    /\ displayTargetFile = <<>>
    /\ duplicateCheckMap = {}
    /\ allIssues = <<>>
    /\ retIssues = <<>>
    /\ retErr = "nil"

----------------------------------------------------------------------------
(* The MCP server entry of an IDE's JSON config file.  A JSON document is   *)
(* what json.Unmarshal into a map[string]interface{} makes of it: root is   *)
(* the numbers held by its other root-level fields, mcpServers the value of *)
(* that key, a map from server keys to entries when it is an object.  A     *)
(* server key is the sequence of its letters.                               *)

\* strings.Contains
StringsContains(str, substr) == StringsIndexFrom(str, substr, 1) # 0

\* the map of no key
EmptyMap == [k \in {} |-> ""]

\* the keys a range loop of findServerKeyInGenericMap may return at: the Go
\* runtime picks the order of iteration
matchingKeys(servers, serverKey) ==
    {key \in DOMAIN servers :
        \/ ToLower(key) = ToLower(serverKey)
        \/ StringsContains(ToLower(key), ToLower(serverKey))}

\* the values findServerKeyInGenericMap may return
findServerKeyInGenericMap(servers, serverKey) ==
    IF matchingKeys(servers, serverKey) = {} THEN {serverKey}
    ELSE matchingKeys(servers, serverKey)

overrideKeys == {"SNYK_CFG_ORG", "SNYK_API", "IDE_CONFIG_PATH", "TRUSTED_FOLDERS"}

\* mergeEnv on a map that is not nil.  `resultingEnv := existing` makes the
\* two names one map, so the caller's existingEnvMap holds the merged keys
\* too when mergeEnv returns.
mergeEnv(existing, new) ==
    LET merged == [k \in DOMAIN existing \cup (DOMAIN new \cap overrideKeys) |->
                      IF k \in DOMAIN new \cap overrideKeys THEN new[k] ELSE existing[k]]
    IN  [existingEnvMap |-> merged, resultingEnv |-> merged]

envMapsEqual(a, b) ==
    /\ Cardinality(DOMAIN a) = Cardinality(DOMAIN b)
    /\ \A k \in DOMAIN a : k \in DOMAIN b /\ b[k] = a[k]

stringSlicesEqual(a, b) ==
    /\ Len(a) = Len(b)
    /\ \A i \in 1..Len(a) : a[i] = b[i]

\* json.Marshal of the float64 that json.Unmarshal made of a number
remarshalRoot(root) == [i \in 1..Len(root) |-> Float64(root[i])]

\* an entry that is no JSON object
NoEntry ==
    [isObject |-> FALSE, command |-> "", args |-> <<>>, envKind |-> "absent",
     env |-> EmptyMap, extra |-> ""]

\* a file that does not exist
NoFile ==
    [exists |-> FALSE, kind |-> "blank", root |-> <<>>, hasServers |-> FALSE,
     serversIsObject |-> FALSE, mcpServers |-> EmptyMap]

\* the file after os.WriteFile of the marshalled config
writtenConfig(before, mcpServers) ==
    [exists |-> TRUE, kind |-> "object", root |-> remarshalRoot(before.root),
     hasServers |-> TRUE, serversIsObject |-> TRUE, mcpServers |-> mcpServers]

\* ensureMcpServerInJson on the file f with the arguments of req, the range
\* loop returning keyToUse, os.WriteFile succeeding iff writable; the result
\* is the file after the call and what the call returned ("panic" when it
\* did not return)
ensureMcpServerInJsonOutcome(f, req, keyToUse, writable) ==
    LET same(ret) == [file |-> f, ret |-> ret]
        mcpServers == IF f.exists /\ f.kind = "object" /\ f.hasServers /\ f.serversIsObject
                      THEN f.mcpServers ELSE EmptyMap
        found == keyToUse \in DOMAIN mcpServers
        existingRaw == IF found THEN mcpServers[keyToUse] ELSE NoEntry
        existingServerMap == IF existingRaw.isObject THEN existingRaw ELSE NoEntry
        \* the struct McpServer unmarshalled from the entry
        existingServer == existingServerMap
        envIsNil == existingServerMap.envKind = "null"
        overrides == DOMAIN req.env \cap overrideKeys
        merge == mergeEnv(existingServerMap.env, req.env)
        needsWrite == \/ existingServer.command # req.command
                      \/ ~stringSlicesEqual(existingServer.args, req.args)
                      \/ ~envMapsEqual(merge.existingEnvMap, merge.resultingEnv)
        entry == [isObject |-> TRUE, command |-> req.command, args |-> req.args,
                  envKind |-> IF envIsNil THEN "null" ELSE "object",
                  env |-> merge.resultingEnv, extra |-> existingServerMap.extra]
        written == [key \in DOMAIN mcpServers \cup {keyToUse} |->
                       IF key = keyToUse THEN entry ELSE mcpServers[key]]
    IN  IF f.exists /\ f.kind = "invalid" THEN same("failed to unmarshal config file")
        ELSE IF envIsNil /\ overrides # {} THEN same("panic")
        ELSE IF ~needsWrite THEN same("nil")
        ELSE IF f.exists /\ f.kind = "null" THEN same("panic")
        ELSE IF ~writable THEN same("failed to write config file")
        ELSE [file |-> writtenConfig(f, written), ret |-> "nil"]

\* removeMcpServerFromJson on the file f
removeMcpServerFromJsonOutcome(f, req, keyToRemove, writable) ==
    LET same(ret) == [file |-> f, ret |-> ret]
    IN  IF ~f.exists THEN same("nil")
        ELSE IF f.kind \in {"blank", "invalid"} THEN same("failed to parse config file")
        ELSE IF f.kind = "null" \/ ~f.hasServers \/ ~f.serversIsObject THEN same("nil")
        ELSE IF keyToRemove \notin DOMAIN f.mcpServers THEN same("nil")
        ELSE IF ~writable THEN same("failed to write config file")
        ELSE [file |-> writtenConfig(f, [key \in DOMAIN f.mcpServers \ {keyToRemove} |->
                                            f.mcpServers[key]]),
              ret |-> "nil"]

\* the servers of f as the calls see them
serversOf(f) ==
    IF f.exists /\ f.kind = "object" /\ f.hasServers /\ f.serversIsObject
    THEN f.mcpServers ELSE EmptyMap

\* the server keys in config files, and shared.ServerNameKey
ConfigKeys ==
    { <<"S", "n", "y", "k">>, <<"s", "n", "y", "k">>,
      <<"m", "y", "-", "s", "n", "y", "k">>, <<"g", "i", "t">> }
ServerNameKey == <<"S", "n", "y", "k">>

ConfigEntries ==
    { [isObject |-> TRUE, command |-> "npx", args |-> <<"mcp">>, envKind |-> "object",
       env |-> [k \in {"SNYK_CFG_ORG"} |-> "old"], extra |-> "disabled"],
      [isObject |-> TRUE, command |-> "/cli", args |-> <<>>, envKind |-> "absent",
       env |-> EmptyMap, extra |-> ""],
      [isObject |-> TRUE, command |-> "npx", args |-> <<"mcp">>, envKind |-> "null",
       env |-> EmptyMap, extra |-> ""],
      [isObject |-> TRUE, command |-> "npx", args |-> <<"mcp">>, envKind |-> "object",
       env |-> [k \in {"PATH"} |-> "/bin"], extra |-> ""],
      NoEntry }

ConfigServers ==
    UNION {[keys -> ConfigEntries] :
              keys \in {ks \in SUBSET ConfigKeys : Cardinality(ks) <= MaxServers}}

ConfigFiles ==
    {NoFile}
    \cup [exists : {TRUE}, kind : {"blank", "invalid", "null"}, root : {<<>>},
          hasServers : {FALSE}, serversIsObject : {FALSE}, mcpServers : {EmptyMap}]
    \cup [exists : {TRUE}, kind : {"object"}, root : {<<>>, <<HugeLine + 1>>},
          hasServers : BOOLEAN, serversIsObject : {FALSE}, mcpServers : {EmptyMap}]
    \cup [exists : {TRUE}, kind : {"object"}, root : {<<>>, <<HugeLine + 1>>},
          hasServers : {TRUE}, serversIsObject : {TRUE}, mcpServers : ConfigServers]

ConfigRequests ==
    [op : {"ensure"}, serverKey : {ServerNameKey}, command : {"npx", "/cli"},
     args : {<<"mcp">>},
     env : {EmptyMap, [k \in {"SNYK_CFG_ORG"} |-> "new"],
            [k \in {"SNYK_CFG_ORG", "PATH"} |-> IF k = "PATH" THEN "/usr" ELSE "new"]}]
    \cup
    [op : {"remove"}, serverKey : {ServerNameKey}, command : {""}, args : {<<>>},
     env : {EmptyMap}]

\* one call, whole
EnsureMcpServerInJson ==
    /\ Len(fileOp) < MaxFileOps
    /\ \E req \in ConfigRequests, writable \in BOOLEAN :
         \E keyToUse \in findServerKeyInGenericMap(serversOf(file), req.serverKey) :
            /\ req.op = "ensure"
            /\ LET out == ensureMcpServerInJsonOutcome(file, req, keyToUse, writable)
               IN  /\ file' = out.file
                   /\ fileOp' = Append(fileOp, [req |-> req, key |-> keyToUse,
                                                before |-> file, ret |-> out.ret])
    /\ UNCHANGED <<locals, shared, server>>

RemoveMcpServerFromJson ==
    /\ Len(fileOp) < MaxFileOps
    /\ \E req \in ConfigRequests, writable \in BOOLEAN :
         \E keyToRemove \in findServerKeyInGenericMap(serversOf(file), req.serverKey) :
            /\ req.op = "remove"
            /\ LET out == removeMcpServerFromJsonOutcome(file, req, keyToRemove, writable)
               IN  /\ file' = out.file
                   /\ fileOp' = Append(fileOp, [req |-> req, key |-> keyToRemove,
                                                before |-> file, ret |-> out.ret])
    /\ UNCHANGED <<locals, shared, server>>

InitMcpJson ==
    /\ ConfigureOnly
    /\ file \in ConfigFiles
    /\ fileOp = <<>>

NextMcpJson == EnsureMcpServerInJson \/ RemoveMcpServerFromJson

SpecMcpJson == InitMcpJson /\ [][NextMcpJson]_vars

----------------------------------------------------------------------------
(* The .gitignore of the workspace.  Its content is a sequence of atoms: a  *)
(* newline, a blank, "*", or a run of other characters.                     *)

Newline == "\n"
Blank == " "

\* strings.Split(content, "\n"): the pieces between the newlines, one more
\* than there are newlines
RECURSIVE StringsSplitLines(_, _)
StringsSplitLines(content, piece) ==
    IF content = <<>> THEN <<piece>>
    ELSE IF Head(content) = Newline
         THEN <<piece>> \o StringsSplitLines(Tail(content), <<>>)
         ELSE StringsSplitLines(Tail(content), Append(piece, Head(content)))

\* strings.Join(lines, "\n")
RECURSIVE StringsJoinLines(_)
StringsJoinLines(lines) ==
    IF lines = <<>> THEN <<>>
    ELSE IF Len(lines) = 1 THEN lines[1]
    ELSE lines[1] \o <<Newline>> \o StringsJoinLines(Tail(lines))

\* strings.TrimRight(str, cutset) for a cutset of one character
RECURSIVE StringsTrimRight(_, _)
StringsTrimRight(str, c) ==
    IF str # <<>> /\ str[Len(str)] = c THEN StringsTrimRight(SubSeq(str, 1, Len(str) - 1), c)
    ELSE str

RECURSIVE StringsTrimLeft(_, _)
StringsTrimLeft(str, c) ==
    IF str # <<>> /\ Head(str) = c THEN StringsTrimLeft(Tail(str), c)
    ELSE str

\* strings.TrimSpace of a line, which holds no newline
StringsTrimSpace(line) == StringsTrimLeft(StringsTrimRight(line, Blank), Blank)

\* gitignore.CompileIgnoreLines(lines...).MatchesPath(entry): a line, its
\* blanks trimmed, is a pattern unless it is empty; "*" matches every path,
\* any other pattern of the pool the path that equals it
MatchesPath(lines, entry) ==
    \E i \in 1..Len(lines) :
        LET pattern == StringsTrimSpace(lines[i])
        IN  /\ pattern # <<>>
            /\ pattern = <<"*">> \/ pattern = entry

\* addToGitIgnore on the file f
addToGitIgnoreOutcome(f, entry, writable) ==
    LET same(ret) == [file |-> f, ret |-> ret]
        content == f.content
        newContent == (IF Len(content) > 0 /\ content[Len(content)] # Newline
                       THEN content \o <<Newline>> ELSE content)
                      \o entry \o <<Newline>>
    IN  IF ~f.exists THEN same("no .gitignore found in workspace or git root")
        ELSE IF content # <<>> /\ MatchesPath(StringsSplitLines(content, <<>>), entry)
             THEN same("nil")
        ELSE IF ~writable THEN same("failed to write .gitignore")
        ELSE [file |-> [exists |-> TRUE, content |-> newContent], ret |-> "nil"]

\* the loop of removeFromGitIgnore: the lines whose trimmed text is not entry
RECURSIVE filterEntry(_, _)
filterEntry(lines, entry) ==
    IF lines = <<>> THEN <<>>
    ELSE IF StringsTrimSpace(Head(lines)) = entry THEN filterEntry(Tail(lines), entry)
    ELSE <<Head(lines)>> \o filterEntry(Tail(lines), entry)

\* removeFromGitIgnore on the file f
removeFromGitIgnoreOutcome(f, entry, writable) ==
    LET same(ret) == [file |-> f, ret |-> ret]
        lines == StringsSplitLines(f.content, <<>>)
        newLines == filterEntry(lines, entry)
        found == Len(newLines) < Len(lines)
        trimmed == StringsTrimRight(StringsJoinLines(newLines), Newline)
        newContent == IF Len(trimmed) > 0 THEN trimmed \o <<Newline>> ELSE trimmed
    IN  IF ~f.exists THEN same("no .gitignore found in workspace or git root")
        ELSE IF ~found THEN same("nil")
        ELSE IF ~writable THEN same("failed to write .gitignore")
        ELSE [file |-> [exists |-> TRUE, content |-> newContent], ret |-> "nil"]

GitignoreAtoms == {"x", "a", "*", Blank, Newline}
GitignoreFiles ==
    [exists : {TRUE}, content : SeqsUpTo(GitignoreAtoms, MaxContentLen)]
    \cup {[exists |-> FALSE, content |-> <<>>]}

\* relativePath, with "/" for every "\"
GitignoreEntries == {<<"x">>, <<Blank, "x">>}

AddToGitIgnore ==
    /\ Len(fileOp) < MaxFileOps
    /\ \E entry \in GitignoreEntries, writable \in BOOLEAN :
         LET out == addToGitIgnoreOutcome(file, entry, writable)
         IN  /\ file' = out.file
             /\ fileOp' = Append(fileOp, [op |-> "add", entry |-> entry,
                                          before |-> file, ret |-> out.ret])
    /\ UNCHANGED <<locals, shared, server>>

RemoveFromGitIgnore ==
    /\ Len(fileOp) < MaxFileOps
    /\ \E entry \in GitignoreEntries, writable \in BOOLEAN :
         LET out == removeFromGitIgnoreOutcome(file, entry, writable)
         IN  /\ file' = out.file
             /\ fileOp' = Append(fileOp, [op |-> "remove", entry |-> entry,
                                          before |-> file, ret |-> out.ret])
    /\ UNCHANGED <<locals, shared, server>>

InitGitIgnore ==
    /\ ConfigureOnly
    /\ file \in GitignoreFiles
    /\ fileOp = <<>>

NextGitIgnore == AddToGitIgnore \/ RemoveFromGitIgnore

SpecGitIgnore == InitGitIgnore /\ [][NextGitIgnore]_vars

----------------------------------------------------------------------------
(* The MCP server: McpLLMBinding.Start, the goroutine HandleSseServer       *)
(* spawns, Shutdown and Started, each step being one access to the state    *)
(* the goroutines share.  binding holds the fields of the McpLLMBinding and *)
(* the control points of the goroutines:                                    *)
(*   start     where the caller of Start is: "idle" before the call,        *)
(*             "handle" in the switch on the transport, "locked" holding    *)
(*             the mutex in HandleStdioServer, "listen" before              *)
(*             ListenAndServe, "serving" blocked in Run or ListenAndServe,  *)
(*             "returned" after Start;                                      *)
(*   up        whether Run or ListenAndServe is serving;                    *)
(*   starter   where the goroutine of HandleSseServer is;                   *)
(*   shutdown  where the caller of Shutdown is;                             *)
(*   shutdownAt  where the caller of Start was when Shutdown was called;    *)
(*   mutex     the goroutine that holds m.mutex, "free" if none;            *)
(*   port      what networking.IsPortInUse(m.baseURL) gives;                *)
(*   reported  what the latest call of Started returned, and whether        *)
(*             Shutdown had returned when it was made.                      *)

\* every variable but binding is at rest
ServerOnly ==
    /\ SharedInit
    /\ file = <<>>
    /\ fileOp = <<>>
    /\ tool = <<>>
    /\ pc = "done"
    /\ includeIgnores = FALSE
    /\ payload = [format |-> "none", unmarshal |-> "ok"]
    /\ rules = <<>>
    /\ baseDir = <<Sep, "w">>
    /\ seen = <<>>
    /\ issues = <<>>
    /\ errs = <<>>
    /\ res = 0
    /\ displayTargetFile = <<>>
    /\ duplicateCheckMap = {}
    /\ allIssues = <<>>
    /\ retIssues = <<>>
    /\ retErr = "nil"

ServerRest == <<locals, shared, configure, tool>>

\* NewMcpLLMBinding; the port may be held by another process
NewMcpLLMBinding ==
    [start : {"idle"}, transport : {""}, err : {"nil"}, up : {FALSE},
     starter : {"none"}, shutdown : {"idle"}, shutdownAt : {""}, mutex : {"free"}, started : {FALSE},
     port : BOOLEAN, reported : {[made |-> FALSE, value |-> FALSE, afterShutdown |-> FALSE]}]

\* Start up to the switch on the transport type; addSnykTools may fail
StartCalled ==
    /\ binding.start = "idle"
    /\ \E transportType \in {"stdio", "sse", "other"}, toolsErr \in BOOLEAN :
         binding' = IF toolsErr
                    THEN [binding EXCEPT !.start = "returned", !.err = "addSnykTools"]
                    ELSE IF transportType = "other"
                    THEN [binding EXCEPT !.start = "returned", !.err = "invalid transport type",
                                         !.transport = transportType]
                    ELSE [binding EXCEPT !.start = "handle", !.transport = transportType]
    /\ UNCHANGED ServerRest

\* HandleStdioServer: m.mutex.Lock()
StdioLock ==
    /\ binding.start = "handle" /\ binding.transport = "stdio"
    /\ binding.mutex = "free"
    /\ binding' = [binding EXCEPT !.start = "locked", !.mutex = "start"]
    /\ UNCHANGED ServerRest

\* HandleStdioServer: m.started = true; m.mutex.Unlock(); m.mcpServer.Run begins
StdioRun ==
    /\ binding.start = "locked"
    /\ binding' = [binding EXCEPT !.start = "serving", !.started = TRUE, !.mutex = "free",
                                  !.up = TRUE]
    /\ UNCHANGED ServerRest

\* HandleSseServer up to ListenAndServe: the goroutine is spawned
SseSpawn ==
    /\ binding.start = "handle" /\ binding.transport = "sse"
    /\ binding' = [binding EXCEPT !.start = "listen", !.starter = "sleep"]
    /\ UNCHANGED ServerRest

\* srv.ListenAndServe(): it binds the port and serves, or fails at once when
\* the port is taken
SseListen ==
    /\ binding.start = "listen"
    /\ binding' = IF binding.port
                  THEN [binding EXCEPT !.start = "returning", !.err = "listen"]
                  ELSE [binding EXCEPT !.start = "serving", !.up = TRUE, !.port = TRUE]
    /\ UNCHANGED ServerRest

\* the goroutine: time.Sleep(100 * time.Millisecond) is over
StarterWakes ==
    /\ binding.starter = "sleep"
    /\ binding' = [binding EXCEPT !.starter = "poll"]
    /\ UNCHANGED ServerRest

\* the goroutine: for !networking.IsPortInUse(m.baseURL) { time.Sleep(...) }
StarterPolls ==
    /\ binding.starter = "poll"
    /\ binding' = [binding EXCEPT !.starter = IF binding.port THEN "lock" ELSE "poll"]
    /\ UNCHANGED ServerRest

\* the goroutine: m.mutex.Lock()
StarterLocks ==
    /\ binding.starter = "lock"
    /\ binding.mutex = "free"
    /\ binding' = [binding EXCEPT !.starter = "locked", !.mutex = "starter"]
    /\ UNCHANGED ServerRest

\* the goroutine: m.started = true; m.mutex.Unlock()
StarterSets ==
    /\ binding.starter = "locked"
    /\ binding' = [binding EXCEPT !.starter = "done", !.started = TRUE, !.mutex = "free"]
    /\ UNCHANGED ServerRest

\* what ends Run or ListenAndServe: the transport's input is closed, the
\* listener fails.  Nothing in the program does it.
ServingEnds ==
    /\ binding.start = "serving"
    /\ binding' = [binding EXCEPT !.start = "returning", !.up = FALSE,
                                  !.err = IF binding.transport = "sse" THEN "serve" ELSE "nil",
                                  !.port = IF binding.transport = "sse" THEN FALSE
                                           ELSE binding.port]
    /\ UNCHANGED ServerRest

\* Start returns what the handler returned
StartReturns ==
    /\ binding.start = "returning"
    /\ binding' = [binding EXCEPT !.start = "returned"]
    /\ UNCHANGED ServerRest

\* Shutdown: m.mutex.Lock()
ShutdownLocks ==
    /\ binding.shutdown = "idle"
    /\ binding.mutex = "free"
    /\ binding' = [binding EXCEPT !.shutdown = "locked", !.mutex = "shutdown",
                                  !.shutdownAt = binding.start]
    /\ UNCHANGED ServerRest

\* Shutdown: m.started = false, the deferred Unlock, return
ShutdownReturns ==
    /\ binding.shutdown = "locked"
    /\ binding' = [binding EXCEPT !.shutdown = "returned", !.started = FALSE,
                                  !.mutex = "free"]
    /\ UNCHANGED ServerRest

\* Started(): RLock, read, RUnlock
Started ==
    /\ binding.mutex = "free"
    /\ binding' = [binding EXCEPT !.reported =
                       [made |-> TRUE, value |-> binding.started,
                        afterShutdown |-> binding.shutdown = "returned"]]
    /\ UNCHANGED ServerRest

InitServer ==
    /\ ServerOnly
    /\ binding \in NewMcpLLMBinding

\* the steps of the program, once its functions are called
ServerSteps ==
    \/ StdioLock \/ StdioRun \/ SseSpawn \/ SseListen
    \/ StarterWakes \/ StarterPolls \/ StarterLocks \/ StarterSets
    \/ StartReturns \/ ShutdownReturns

NextServer ==
    \/ StartCalled
    \/ ServerSteps
    \/ ServingEnds
    \/ ShutdownLocks
    \/ Started

SpecServer == InitServer /\ [][NextServer]_vars

\* the scheduler runs every goroutine that can take a step; the callers and
\* the world outside owe nothing
SpecServerFair == SpecServer /\ WF_vars(ServerSteps)

----------------------------------------------------------------------------
(* The global rules file.  Its content is a sequence of atoms: the two      *)
(* markers, a newline, a carriage return, a blank, or a run of other        *)
(* characters.                                                              *)

RuleStart == "<!--# BEGIN SNYK GLOBAL RULE -->"
RuleEnd == "<!--# END SNYK GLOBAL RULE -->"
Return == "\r"

\* strings.TrimRight and strings.TrimLeft for a cutset
RECURSIVE StringsTrimRightSet(_, _)
StringsTrimRightSet(str, cutset) ==
    IF str # <<>> /\ str[Len(str)] \in cutset
    THEN StringsTrimRightSet(SubSeq(str, 1, Len(str) - 1), cutset)
    ELSE str

RECURSIVE StringsTrimLeftSet(_, _)
StringsTrimLeftSet(str, cutset) ==
    IF str # <<>> /\ Head(str) \in cutset THEN StringsTrimLeftSet(Tail(str), cutset)
    ELSE str

\* strings.TrimSpace of a text
StringsTrimSpaceText(str) ==
    StringsTrimLeftSet(StringsTrimRightSet(str, {Newline, Return, Blank}),
                       {Newline, Return, Blank})

trimTrailingNewlines(str) == StringsTrimRightSet(str, {Newline, Return, Blank})
trimLeadingNewlines(str) == StringsTrimLeftSet(str, {Newline, Return})

\* strings.ReplaceAll(source, "\r\n", "\n")
RECURSIVE normalizeNewlines(_)
normalizeNewlines(source) ==
    IF source = <<>> THEN <<>>
    ELSE IF Len(source) >= 2 /\ source[1] = Return /\ source[2] = Newline
         THEN <<Newline>> \o normalizeNewlines(SubSeq(source, 3, Len(source)))
         ELSE <<Head(source)>> \o normalizeNewlines(Tail(source))

\* upsertDelimitedBlock; an index is a position from 1, 0 for none
upsertDelimitedBlock(source, start, end, fullBlockToInsert) ==
    LET src == normalizeNewlines(source)
        startIdx == StringsIndexFrom(src, <<start>>, 1)
        endIdx == StringsIndexFrom(src, <<end>>, 1)
        before == SubSeq(src, 1, startIdx - 1)
        after == SubSeq(src, endIdx + 1, Len(src))
    IN  IF startIdx # 0 /\ endIdx # 0 /\ endIdx > startIdx
        THEN trimTrailingNewlines(before) \o <<Newline>>
             \o StringsTrimSpaceText(fullBlockToInsert) \o <<Newline>>
             \o trimLeadingNewlines(after)
        ELSE (IF Len(src) > 0 THEN trimTrailingNewlines(src) \o <<Newline, Newline>>
              ELSE <<>>)
             \o StringsTrimSpaceText(fullBlockToInsert) \o <<Newline>>

\* writeGlobalRules on the file f
writeGlobalRulesOutcome(f, rulesContent, dirOk, writable) ==
    LET block == <<RuleStart, Newline>> \o StringsTrimSpaceText(rulesContent)
                 \o <<Newline, RuleEnd, Newline>>
        current == IF f.exists THEN f.content ELSE <<>>
        updated == upsertDelimitedBlock(current, RuleStart, RuleEnd, block)
    IN  IF ~dirOk THEN [file |-> f, ret |-> "failed to create rules directory"]
        ELSE IF updated = current THEN [file |-> f, ret |-> "nil"]
        ELSE IF ~writable THEN [file |-> f, ret |-> "failed to write global rules"]
        ELSE [file |-> [exists |-> TRUE, content |-> updated], ret |-> "nil"]

RulesAtoms == {RuleStart, RuleEnd, Newline, Return, Blank, "text"}
RulesFiles ==
    [exists : {TRUE}, content : SeqsUpTo(RulesAtoms, MaxContentLen)]
    \cup {[exists |-> FALSE, content |-> <<>>]}

RulesContents == {<<"rules">>, <<Blank, "rules", Newline, "more", Newline>>}

WriteGlobalRules ==
    /\ Len(fileOp) < MaxFileOps
    /\ \E rulesContent \in RulesContents, dirOk \in BOOLEAN, writable \in BOOLEAN :
         LET out == writeGlobalRulesOutcome(file, rulesContent, dirOk, writable)
         IN  /\ file' = out.file
             /\ fileOp' = Append(fileOp, [op |-> "writeGlobalRules", rules |-> rulesContent,
                                          before |-> file, ret |-> out.ret])
    /\ UNCHANGED <<locals, shared, server>>

InitRules ==
    /\ ConfigureOnly
    /\ file \in RulesFiles
    /\ fileOp = <<>>

NextRules == WriteGlobalRules

SpecRules == InitRules /\ [][NextRules]_vars

----------------------------------------------------------------------------
(* A scan tool call: the handler defaultHandler returns, from its entry to  *)
(* its return, one step for each call it makes to the world outside (the    *)
(* trust store, whoami, the CLI process, the REST API).  tool holds the     *)
(* tool definition, the configuration and the request of the call, and:     *)
(*   pc      the call the handler makes next;                               *)
(*   events  the gates passed and the CLI runs, in order;                   *)
(*   runs    for each run of the CLI, how the process ended and what        *)
(*           runSnyk returned;                                              *)
(*   result  what the handler returned.                                     *)

\* every variable but tool is at rest
ToolOnly ==
    /\ SharedInit
    /\ file = <<>>
    /\ fileOp = <<>>
    /\ binding = <<>>
    /\ pc = "done"
    /\ includeIgnores = FALSE
    /\ payload = [format |-> "none", unmarshal |-> "ok"]
    /\ rules = <<>>
    /\ baseDir = <<Sep, "w">>
    /\ seen = <<>>
    /\ issues = <<>>
    /\ errs = <<>>
    /\ res = 0
    /\ displayTargetFile = <<>>
    /\ duplicateCheckMap = {}
    /\ allIssues = <<>>
    /\ retIssues = <<>>
    /\ retErr = "nil"

ToolRest == <<locals, shared, configure, binding>>

\* the regexp re, ^python(\d+(\.\d+)?(\.\d+)?)?(\.exe)?$, on a name whose
\* atoms are "python", "." and ".exe", a run of digits (such as "3"), or
\* anything else
IsDigits(a) == a \in {"3", "11"}
reVersion(str) ==
    \/ str = <<>>
    \/ Len(str) = 1 /\ IsDigits(str[1])
    \/ Len(str) = 3 /\ IsDigits(str[1]) /\ str[2] = "." /\ IsDigits(str[3])
    \/ /\ Len(str) = 5 /\ IsDigits(str[1]) /\ str[2] = "." /\ IsDigits(str[3])
       /\ str[4] = "." /\ IsDigits(str[5])

reMatchString(name) ==
    /\ name # <<>> /\ name[1] = "python"
    /\ LET rest == Tail(name)
           stem == IF rest # <<>> /\ rest[Len(rest)] = ".exe"
                   THEN SubSeq(rest, 1, Len(rest) - 1) ELSE rest
       IN  reVersion(stem)

\* a gate on the command that lets everything through
verifyCommandArgumentAcceptsAll(command) == TRUE

\* verifyCommandArgument on params["command"].value
verifyCommandArgument(command) ==
    IF command.kind # "string" THEN TRUE
    ELSE reMatchString(Base(command.str))

CodeAutoEnablementError == <<"s", "nyk-code-0005">>

\* strings.Contains(strings.ToLower(output), CodeAutoEnablementError)
hasAutoEnablementError(output) == StringsContains(ToLower(output), CodeAutoEnablementError)

\* a runSnyk for which exit code 1 is an error too
runSnykStrict(process) ==
    [output |-> process.stdout,
     err |-> IF process.kind = "failed" \/ process.exitCode >= 1 THEN "err" ELSE "nil"]

\* runSnyk on a CLI process that ended as process says: kind "exit" with an
\* exit code, "signal" (ExitCode() is -1), or "failed", an error of
\* command.Output() that is no *exec.ExitError
runSnyk(process) ==
    [output |-> process.stdout,
     err |-> IF process.kind = "failed" THEN "err"
             ELSE IF process.kind = "exit" /\ process.exitCode = 0 THEN "nil"
             ELSE IF process.exitCode > 1 THEN "err"
             ELSE "nil"]

CliOutputs ==
    { <<>>, <<"text">>, <<"text", "s", "nyk-code-0005">>, <<"S", "nyk-code-0005", "text">> }

\* the ways a CLI process ends
CliProcesses ==
    [kind : {"exit"}, exitCode : 0..MaxExitCode, stdout : CliOutputs]
    \cup [kind : {"signal"}, exitCode : {-1}, stdout : CliOutputs]
    \cup [kind : {"failed"}, exitCode : {0}, stdout : {<<>>}]

\* values of the request argument "command"
CommandArguments ==
    { [supplied |-> FALSE, kind |-> "nil", str |-> <<>>],
      [supplied |-> TRUE, kind |-> "nil", str |-> <<>>],
      [supplied |-> TRUE, kind |-> "bool", str |-> <<>>],
      [supplied |-> TRUE, kind |-> "string", str |-> <<>>],
      [supplied |-> TRUE, kind |-> "string", str |-> <<"python", "3">>],
      [supplied |-> TRUE, kind |-> "string", str |-> <<Sep, "venv", Sep, "python", "3", ".", "11", ".exe">>],
      [supplied |-> TRUE, kind |-> "string", str |-> <<Sep, "bin", Sep, "bash">>],
      [supplied |-> TRUE, kind |-> "string", str |-> <<"python", "3", ".">>] }

ToolNameCodeTest == "snyk_code_scan"
ToolNameScaTest == "snyk_sca_scan"

\* the calls of defaultHandler
ToolCalls ==
    [pc : {"called"}, name : {ToolNameCodeTest, ToolNameScaTest},
     IgnoreTrust : BOOLEAN, IgnoreAuth : BOOLEAN, DisableTrustFlag : BOOLEAN,
     orgId : {"", "org"}, command : CommandArguments,
     events : {<<>>}, runs : {<<>>}, enabled : {FALSE}, result : {"none"}]

\* a handler that tries the auto-enablement for every tool
afterFirstRunAnyTool(t, ran) ==
    IF ran.err = "nil" THEN [pc |-> "returned", result |-> "output"]
    ELSE IF ran.output = <<>> THEN [pc |-> "returned", result |-> "text"]
    ELSE IF hasAutoEnablementError(ran.output)
         THEN IF t.orgId = "" THEN [pc |-> "returned", result |-> "text"]
              ELSE [pc |-> "enable", result |-> "none"]
    ELSE [pc |-> "returned", result |-> "text"]

\* what the handler does with the outcome of the first run, up to its return
\* or to the call of enableSnykCodeForOrg
afterFirstRun(t, ran) ==
    IF ran.err = "nil" THEN [pc |-> "returned", result |-> "output"]
    ELSE IF ran.output = <<>> THEN [pc |-> "returned", result |-> "text"]
    ELSE IF hasAutoEnablementError(ran.output) /\ t.name = ToolNameCodeTest
         THEN IF t.orgId = "" THEN [pc |-> "returned", result |-> "text"]
              ELSE [pc |-> "enable", result |-> "none"]
    ELSE [pc |-> "returned", result |-> "text"]

\* entry: the tool definition has a command, the arguments are prepared
ToolEntry ==
    /\ tool.pc = "called"
    /\ \E prepared \in BOOLEAN :
         tool' = IF prepared THEN [tool EXCEPT !.pc = "trust"]
                 ELSE [tool EXCEPT !.pc = "returned", !.result = "error"]
    /\ UNCHANGED ToolRest

\* the folder trust gate
TrustGate ==
    /\ tool.pc = "trust"
    /\ LET trustDisabled == tool.DisableTrustFlag \/ tool.IgnoreTrust
       IN  \E IsFolderTrusted \in BOOLEAN :
             tool' = IF trustDisabled THEN [tool EXCEPT !.pc = "auth"]
                     ELSE IF ~IsFolderTrusted
                     THEN [tool EXCEPT !.pc = "returned", !.result = "text"]
                     ELSE [tool EXCEPT !.pc = "auth", !.events = Append(@, "trusted")]
    /\ UNCHANGED ToolRest

\* the authentication gate
AuthGate ==
    /\ tool.pc = "auth"
    /\ \E whoAmI \in BOOLEAN :
         tool' = IF tool.IgnoreAuth THEN [tool EXCEPT !.pc = "command"]
                 ELSE IF ~whoAmI
                 THEN [tool EXCEPT !.pc = "returned", !.result = "text"]
                 ELSE [tool EXCEPT !.pc = "command", !.events = Append(@, "authenticated")]
    /\ UNCHANGED ToolRest

\* the gate on the argument "command"
CommandGate ==
    /\ tool.pc = "command"
    /\ tool' = IF ~tool.command.supplied THEN [tool EXCEPT !.pc = "run"]
               ELSE IF ~verifyCommandArgument(tool.command)
               THEN [tool EXCEPT !.pc = "returned", !.result = "text"]
               ELSE [tool EXCEPT !.pc = "run", !.events = Append(@, "verified")]
    /\ UNCHANGED ToolRest

\* m.runSnyk and what follows it
RunSnyk ==
    /\ tool.pc = "run"
    /\ \E process \in CliProcesses :
         LET ran == runSnyk(process)
             next == afterFirstRun(tool, ran)
         IN  tool' = [tool EXCEPT !.pc = next.pc, !.result = next.result,
                                  !.events = Append(@, "run"),
                                  !.runs = Append(@, [process |-> process, ran |-> ran])]
    /\ UNCHANGED ToolRest

\* tryAutoEnableSnykCodeAndRetry: enableSnykCodeForOrg
EnableSnykCodeForOrg ==
    /\ tool.pc = "enable"
    /\ \E enableErr \in BOOLEAN :
         tool' = IF enableErr THEN [tool EXCEPT !.pc = "returned", !.result = "text"]
                 ELSE [tool EXCEPT !.pc = "retry", !.enabled = TRUE]
    /\ UNCHANGED ToolRest

\* tryAutoEnableSnykCodeAndRetry: the retry, and the return of the handler
RetrySnyk ==
    /\ tool.pc = "retry"
    /\ \E process \in CliProcesses :
         LET ran == runSnyk(process)
         IN  tool' = [tool EXCEPT !.pc = "returned",
                                  !.result = IF ran.err = "nil" THEN "output" ELSE "text",
                                  !.events = Append(@, "run"),
                                  !.runs = Append(@, [process |-> process, ran |-> ran])]
    /\ UNCHANGED ToolRest

InitTool ==
    /\ ToolOnly
    /\ tool \in ToolCalls

NextTool ==
    \/ ToolEntry \/ TrustGate \/ AuthGate \/ CommandGate
    \/ RunSnyk \/ EnableSnykCodeForOrg \/ RetrySnyk

SpecTool == InitTool /\ [][NextTool]_vars

----------------------------------------------------------------------------
(* Properties. *)

Range(q) == {q[k] : k \in DOMAIN q}
IsSarif == payload.format = "sarif"
IsOss == payload.format = "oss"
Returned == pc = "done" /\ payload.unmarshal = "ok"

\* a URI that percent-decodes
Decodable(uri) == \A k \in DOMAIN uri : uri[k] # "%zz"

\* C1: when some location's path does not resolve, ConvertSARIFJSONToIssues
\* skips only that location: it returns the joined error together with one
\* Issue for every other location (here every result is an unsuppressed
\* result of a security rule).
C1_PartialIssuesWithError ==
    (IsSarif /\ Returned) =>
        LET good == {k \in DOMAIN seen : Decodable(seen[k].URI)}
        IN  /\ Len(retIssues) = Cardinality(good)
            /\ Cardinality(good) < Len(seen) => retErr # "nil"

\* C2: no two Issues returned by one ConvertSARIFJSONToIssues call have the
\* same absolute file path and the same 1-based start line.
C2_NoTwoIssuesShareKey ==
    IsSarif =>
        \A i, j \in DOMAIN retIssues :
            i # j => <<retIssues[i].FilePath, retIssues[i].Line>>
                        # <<retIssues[j].FilePath, retIssues[j].Line>>

\* C3: no two Issues returned by one ConvertOssJsonToIssues call share
\* (target file path, finding id, package name), also across the scan results
\* of an array payload.
C3_NoDuplicateKeyInCall ==
    IsOss =>
        \A i, j \in DOMAIN retIssues :
            i # j => <<retIssues[i].FilePath, retIssues[i].ID, retIssues[i].PackageName>>
                        # <<retIssues[j].FilePath, retIssues[j].ID, retIssues[j].PackageName>>

\* a category that is "security" up to the case of its letters
IsSecurityCategory(c) ==
    /\ Len(c) = Len(CatSecurityLower)
    /\ \A k \in DOMAIN c : c[k] = CatSecurityLower[k] \/ (c[k] = "S" /\ CatSecurityLower[k] = "s")

\* the first rule of the catalog with this id is a security rule
IsSecurityRuleId(id) ==
    \E k \in DOMAIN rules :
        /\ rules[k].ID = id
        /\ \A j \in 1..(k - 1) : rules[j].ID # id
        /\ \E c \in DOMAIN rules[k].Categories : IsSecurityCategory(rules[k].Categories[c])

IdsOf(q) == [k \in DOMAIN q |-> q[k].ID]

\* C4: the Issues of a SARIF conversion are exactly those of the results whose
\* rule, the first of the catalog with the result's ruleID, has "security"
\* among its categories, whatever the case of its letters; a result of another
\* rule, or of a rule the catalog lacks, gives no Issue.
C4_OnlySecurityRules ==
    IsSarif =>
        /\ IdsOf(issues) =
             SelectSeq([k \in DOMAIN seen |-> seen[k].RuleID], IsSecurityRuleId)
        /\ \A k \in DOMAIN retIssues : IsSecurityRuleId(retIssues[k].ID)

C4_Witness ==
    /\ IsSarif /\ Returned
    /\ Len(rules) = 2 /\ rules[1].ID = rules[2].ID
    /\ Len(seen) = 2 /\ Len(retIssues) = 1
    /\ \E k \in DOMAIN rules :
         /\ rules[k].ID = retIssues[1].ID
         /\ CatSecurityMixed \in Range(rules[k].Categories)
    /\ \E k \in DOMAIN seen : seen[k].RuleID = "r3"

\* the last input item a step has iterated over
LastSeen == seen'[Len(seen')]

C5_Step ==
    /\ ~includeIgnores =>
         \A q \in {issues', allIssues', retIssues'} : \A k \in DOMAIN q : ~q[k].IsIgnored
    /\ (IsSarif /\ seen' # seen) =>
         LET accepted == "accepted" \in Range(LastSeen.Suppressions)
         IN  IF accepted /\ ~includeIgnores
             THEN issues' = issues
             ELSE /\ Len(issues') = Len(issues) + 1
                  /\ SubSeq(issues', 1, Len(issues)) = issues
                  /\ issues'[Len(issues')].IsIgnored = accepted
    /\ (IsOss /\ seen' # seen) =>
         LET f == LastSeen.issue
             emittedBefore == \E k \in DOMAIN issues :
                 issues[k].ID = f.Id /\ issues[k].PackageName = f.PackageName
         IN  IF (f.IsIgnored /\ ~includeIgnores) \/ emittedBefore
             THEN issues' = issues
             ELSE /\ Len(issues') = Len(issues) + 1
                  /\ SubSeq(issues', 1, Len(issues)) = issues
                  /\ issues'[Len(issues')].ID = f.Id
                  /\ issues'[Len(issues')].IsIgnored = f.IsIgnored

C6_MalformedJsonIsFatal ==
    (pc = "done" /\ payload.unmarshal # "ok") => (retErr # "nil" /\ retIssues = <<>>)

C6_Witness ==
    /\ pc = "done" /\ payload.unmarshal = "type" /\ IsOss
    /\ payload.array /\ SumSeq(payload.sizes) > 0
    /\ retErr # "nil"

\* C7: with an absolute working directory every Issue ConvertOssJsonToIssues
\* returns has an absolute FilePath.
C7_OssFilePathAbsolute ==
    (IsOss /\ IsAbs(baseDir)) => \A k \in DOMAIN retIssues : IsAbs(retIssues[k].FilePath)

\* the path with its base name replaced by name, the directory part and
\* trailing separators kept
WithBaseName(path, name) ==
    LET stripped == StripTrailingSep(path)
        base == AfterLastSep(stripped)
    IN  SubSeq(path, 1, Len(stripped) - Len(base)) \o name
            \o SubSeq(path, Len(stripped) + 1, Len(path))

\* C8: for a display target file whose base name is a lockfile name, the
\* Issue's target path is that path with only the base name replaced by the
\* manifest name (made absolute under the working directory); for any other
\* base name the file name is unchanged.
C8_OnlyBaseNameReplaced ==
    (IsOss /\ Returned /\ Len(retIssues) = 1) =>
        LET target == seen[1].target
            base == Base(target)
            want == WithBaseName(target, lockFilesToManifestMap(base))
        IN  IF Len(base) = 1 /\ base[1] \in LockFiles
            THEN retIssues[1].FilePath =
                    (IF IsAbs(want) THEN want ELSE FilepathJoin(baseDir, want))
            ELSE Base(retIssues[1].FilePath) = base

Severities == {"Critical", "High", "Medium", "Low"}

\* C9: the severity of every Issue either converter returns is Critical,
\* High, Medium or Low.
C9_SeverityIsEnumMember ==
    \A k \in DOMAIN retIssues : retIssues[k].Severity \in Severities

\* the finding has an upgrade path whose first step is a version other than
\* the installed one
HasNewerUpgradeStep(f) ==
    /\ Len(f.UpgradePath) > 1
    /\ f.UpgradePath[2].isString
    /\ ~(Len(f.From) > 1 /\ f.From[2] = f.UpgradePath[2].s)

\* C10 as stated: every finding with an upgrade path whose first step differs
\* from the installed version has the remediation "Upgrade to <step>".
C10_UpgradeMessageWheneverNewerStep ==
    (IsOss /\ Returned /\ Len(retIssues) = 1) =>
        LET f == seen[1].issue
        IN  HasNewerUpgradeStep(f) =>
                retIssues[1].Remediation = <<"Upgrade to ", f.UpgradePath[2].s>>

\* C10: a finding flagged upgradable or patchable that has an upgrade path
\* whose first step differs from the installed version has the remediation
\* "Upgrade to <step>"; a finding flagged neither has an empty remediation.
C10_UpgradeMessageWhenFixable ==
    (IsOss /\ Returned /\ Len(retIssues) = 1) =>
        LET f == seen[1].issue
        IN  IF f.IsUpgradable \/ f.IsPatchable
            THEN HasNewerUpgradeStep(f) =>
                    retIssues[1].Remediation = <<"Upgrade to ", f.UpgradePath[2].s>>
            ELSE retIssues[1].Remediation = <<>>

C10_Witness ==
    /\ IsOss /\ Returned /\ Len(retIssues) = 1
    /\ seen[1].issue.IsUpgradable /\ ~seen[1].issue.IsPatchable
    /\ seen[1].issue.UpgradePath = <<NoStep, Step("2.0")>>
    /\ seen[1].issue.From = <<"1.0", "1.0">>
    /\ retIssues[1].Remediation = <<"Upgrade to ", "2.0">>

\* the first upgrade-path step of the finding is the installed version
FirstStepIsInstalled(f) ==
    /\ Len(f.UpgradePath) > 1
    /\ f.UpgradePath[2].isString
    /\ Len(f.From) > 1
    /\ f.From[2] = f.UpgradePath[2].s

LockfileAdvice ==
    "Try relocking your lockfile or deleting node_modules and reinstalling your dependencies. If the problem persists, one of your dependencies may be bundling outdated modules."
GenericAdvice ==
    "Try reinstalling your dependencies. If the problem persists, one of your dependencies may be bundling outdated modules."

\* C11: a finding whose first upgrade-path step is the installed version has,
\* when it is patchable, a remediation that is not the upgrade message (it is
\* the patch message), and otherwise the "dependencies are out of date"
\* message, ending in the lockfile advice for npm, yarn and yarn-workspace and
\* in the generic advice for any other package manager.  Stated for the
\* findings flagged upgradable or patchable, the ones getRemediation gives a
\* remediation at all.
C11_PatchOrOutdatedMessage ==
    (IsOss /\ Returned /\ Len(retIssues) = 1) =>
        LET f == seen[1].issue
            remediation == retIssues[1].Remediation
        IN  (FirstStepIsInstalled(f) /\ (f.IsUpgradable \/ f.IsPatchable)) =>
                IF f.IsPatchable
                THEN /\ remediation # <<>>
                     /\ remediation # <<"Upgrade to ", f.UpgradePath[2].s>>
                ELSE /\ remediation # <<>>
                     /\ remediation[1] = "Your dependencies are out of date, otherwise you would be using a newer "
                     /\ remediation[Len(remediation)] =
                            (IF f.PackageManager \in {"npm", "yarn", "yarn-workspace"}
                             THEN LockfileAdvice ELSE GenericAdvice)

\* the elements of the sequences of q, in order
RECURSIVE Flatten(_)
Flatten(q) == IF q = <<>> THEN <<>> ELSE Head(q) \o Flatten(Tail(q))

\* the thread flow locations of a result in codeFlows, threadFlows, locations
\* order
FlowLocationsOf(item) == Flatten(Flatten(item.CodeFlows))

\* (file path, start line) of a thread flow location whose URI decodes
FlowPair(loc) ==
    <<DecodePath(ToAbsolutePath(baseDir, loc.URI)).path, loc.Region.StartLine>>

\* the positions of the first occurrences of the pairs
FirstOccurrences(flat) ==
    {j \in DOMAIN flat :
        /\ Decodable(flat[j].URI)
        /\ \A i \in 1..(j - 1) :
              ~(Decodable(flat[i].URI) /\ FlowPair(flat[i]) = FlowPair(flat[j]))}

\* the i-th smallest element of a set of numbers
Nth(S, i) == CHOOSE j \in S : Cardinality({x \in S : x <= j}) = i

\* the Issue of the only location of the document, and that location
FlowIssues == IF IsSarif /\ Len(seen) = 1 THEN {q \in {issues, retIssues} : q # <<>>} ELSE {}

\* C12: in the dataflow of an Issue no two elements share (file path, start
\* line); the dataflow holds one element for each pair, that of the pair's
\* first occurrence in codeFlows, threadFlows, locations order, in the order of
\* these first occurrences; and the element at index i has Position i (from 0).
C12_DataflowFirstOccurrences ==
    \A q \in FlowIssues :
        LET dataflow == q[1].Dataflow
            flat == FlowLocationsOf(seen[1])
            first == FirstOccurrences(flat)
        IN  /\ Len(dataflow) = Cardinality(first)
            /\ \A i, j \in DOMAIN dataflow :
                  i # j => <<dataflow[i].FilePath, dataflow[i].FlowRange.Start.Line>>
                              # <<dataflow[j].FilePath, dataflow[j].FlowRange.Start.Line>>
            /\ \A i \in DOMAIN dataflow :
                  LET loc == flat[Nth(first, i)]
                  IN  /\ dataflow[i].Position = i - 1
                      /\ dataflow[i].FilePath = FlowPair(loc)[1]
                      /\ dataflow[i].FlowRange.Start.Line + 1 = loc.Region.StartLine
                      /\ dataflow[i].FlowRange.Start.Character + 1 = loc.Region.StartColumn
                      /\ dataflow[i].FlowRange.End.Line + 1 = loc.Region.EndLine

C12_Witness ==
    /\ IsSarif /\ Returned /\ Len(seen) = 1 /\ Len(retIssues) = 1
    /\ Len(seen[1].CodeFlows) = 2
    /\ LET flat == FlowLocationsOf(seen[1])
       IN  /\ Len(flat) = 3
           /\ flat[1].URI = <<"%61", ".js">>
           /\ flat[2].URI = <<"b", ".js">>
           /\ flat[3].URI = <<"a", ".js">> /\ flat[3].Region.StartLine = 10
    /\ Len(retIssues[1].Dataflow) = 2
    /\ retIssues[1].Dataflow[1].FlowRange.Start.Character = 4
    /\ retIssues[1].Dataflow[2].Position = 1

\* C14: the range of a dataflow element is that of its thread flow location's
\* region with start = (startLine - 1, startColumn - 1) and end = (endLine - 1,
\* endColumn); for a region with an end column the end character is one more
\* than that of the primary range of the same region.
C14_FlowRangeEndNotDecremented ==
    \A q \in FlowIssues :
        LET dataflow == q[1].Dataflow
            flat == FlowLocationsOf(seen[1])
            first == FirstOccurrences(flat)
        IN  \A i \in DOMAIN dataflow :
                i <= Cardinality(first) =>
                    LET region == flat[Nth(first, i)].Region
                    IN  /\ dataflow[i].FlowRange =
                              [Start |-> [Line |-> region.StartLine - 1,
                                          Character |-> region.StartColumn - 1],
                               End |-> [Line |-> region.EndLine - 1,
                                        Character |-> region.EndColumn]]
                        /\ region.EndColumn >= 1 =>
                              dataflow[i].FlowRange.End.Character =
                                  primaryRange(region).End.Character + 1

C14_Witness ==
    /\ IsSarif /\ Returned /\ Len(seen) = 1 /\ Len(retIssues) = 1
    /\ Len(retIssues[1].Dataflow) = 2
    /\ retIssues[1].Dataflow[1].FlowRange =
          [Start |-> [Line |-> 9, Character |-> 2], End |-> [Line |-> 9, Character |-> 7]]
    /\ retIssues[1].Dataflow[2].FlowRange =
          [Start |-> [Line |-> 1, Character |-> 0], End |-> [Line |-> 0, Character |-> 0]]

\* C13: the primary range of every location's region is start = (startLine - 1,
\* startColumn - 1), end.line = max(start.line, endLine - 1), end.character =
\* max(endColumn - 1, 0): the end line is never before the start line, the end
\* character never negative; and an Issue's Line and Column are the region's
\* start when both are at least 1.
C13_PrimaryRange ==
    IsSarif =>
        \A k \in DOMAIN seen :
            LET region == seen[k].Region
                myRange == primaryRange(region)
            IN  /\ myRange.Start = [Line |-> region.StartLine - 1,
                                    Character |-> region.StartColumn - 1]
                /\ myRange.End.Line =
                      (IF region.EndLine - 1 >= myRange.Start.Line
                       THEN region.EndLine - 1 ELSE myRange.Start.Line)
                /\ myRange.End.Character =
                      (IF region.EndColumn - 1 >= 0 THEN region.EndColumn - 1 ELSE 0)
                /\ myRange.End.Line >= myRange.Start.Line
                /\ myRange.End.Character >= 0
                /\ (region.StartLine >= 1 /\ region.StartColumn >= 1) =>
                      \A i \in DOMAIN issues :
                          issues[i].Line = region.StartLine /\ issues[i].Column = region.StartColumn

\* the number of characters of a text
Chars(text) ==
    Cardinality({k \in DOMAIN text : text[k][2] = 1 \/ text[k][1] \notin TwoByteChars})

\* the first n characters of a text of more than n characters
FirstChars(text, n) ==
    LET k == CHOOSE j \in DOMAIN text :
                 /\ Chars(SubSeq(text, 1, j)) = n
                 /\ Chars(SubSeq(text, 1, j + 1)) = n + 1
    IN  SubSeq(text, 1, k)

\* the message of a text under a limit in characters
Truncated(text, limit, suffix) ==
    IF Chars(text) > limit THEN FirstChars(text, limit) \o Bytes(suffix) ELSE text

\* C15: the message of an Issue is the full message when that has at most the
\* limit of its format in characters, and otherwise the first characters of
\* the full message up to the limit and then the suffix: 100 characters and
\* "..." for SARIF (at most 103), 200 characters and "... (Snyk)" for SCA (at
\* most 210).
C15_MessageTruncatedAtLimit ==
    /\ (IsSarif /\ Len(seen) = 1) =>
          \A i \in DOMAIN issues :
              LET sd == getRule(rules, seen[1].RuleID).ShortDescription
                  full == IF sd # <<>> THEN sd \o Bytes(": ") \o seen[1].Message
                          ELSE seen[1].Message
              IN  /\ issues[i].Message = Truncated(full, 100, "...")
                  /\ Chars(issues[i].Message) <= 103
    /\ (IsOss /\ Len(seen) = 1) =>
          \A i \in DOMAIN issues :
              LET f == seen[1].issue
                  full == f.Title \o Bytes(" affecting package ") \o Bytes(f.PackageName)
                              \o Bytes(". ") \o BytesOfAll(issues[i].Remediation)
              IN  /\ issues[i].Message = Truncated(full, 200, "... (Snyk)")
                  /\ Chars(issues[i].Message) <= 210

\* the Issue q is that of the location item
IssueOf(q, item) ==
    /\ Decodable(item.URI)
    /\ q.ID = item.RuleID
    /\ q.FilePath = DecodePath(ToAbsolutePath(baseDir, item.URI)).path
    /\ q.Line = item.Region.StartLine

\* q is a subsequence of the Issues of the locations iterated over, in their
\* order
InInputOrder(q) ==
    \E f \in [DOMAIN q -> DOMAIN seen] :
        /\ \A i, j \in DOMAIN q : i < j => f[i] < f[j]
        /\ \A i \in DOMAIN q : IssueOf(q[i], seen[f[i]])

DecodableItem(item) == Decodable(item.URI)

\* C16: the Issues of a SARIF conversion are in input iteration order: they
\* are the Issues of the locations iterated over (here those whose URI
\* decodes), each once and in the order of the locations, and what the call
\* returns is a subsequence of them in that order.
C16_IssuesInInputOrder ==
    IsSarif =>
        /\ Len(issues) = Len(SelectSeq(seen, DecodableItem))
        /\ InInputOrder(issues)
        /\ InInputOrder(retIssues)

C16_Witness ==
    /\ IsSarif /\ Returned /\ Len(seen) = 2 /\ Len(retIssues) = 2
    /\ seen[1].URI = <<"%61", ".js">> /\ seen[1].Region.StartLine = 2
    /\ seen[2].URI = <<"a", ".js">> /\ seen[2].Region.StartLine = 1
    /\ retIssues[1].Line = 2 /\ retIssues[2].Line = 1

\* toIssues over the locations locs, from (issues, errs) = acc
RECURSIVE ConvertLocations(_, _)
ConvertLocations(locs, acc) ==
    IF locs = <<>> THEN acc
    ELSE ConvertLocations(Tail(locs),
             toIssuesLocation(Head(locs), includeIgnores, rules, baseDir, acc.issues, acc.errs))

C18_EnvelopeConvertsAsBare ==
    (IsSarif /\ Returned /\ payload.runs > 0) =>
        /\ retErr = "nil"
        /\ Len(retIssues) = payload.n

\* C19: ConvertOssJsonToIssues takes a payload for an array of scan results
\* when it starts with "[" once the white space around it is trimmed: a
\* well-formed array converts without an error, each of its scan results
\* being converted, whether white space precedes it or not.
C19_ArraySniffedAfterTrim ==
    (IsOss /\ pc = "done" /\ payload.unmarshal = "ok" /\ payload.array) =>
        /\ retErr = "nil"
        /\ res = Len(payload.sizes)

\* C20: the calls share no state that changes: the severity table and the
\* lockfile table stay as initialised whatever calls run, and every call,
\* however its steps interleave with those of the others, returns what it
\* returns when it runs alone.
C20_CallsShareNoMutableState ==
    /\ issueSeverities = [k \in SeverityKeys |-> issueSeverity(k)]
    /\ DOMAIN lockFilesToManifest = {<<name>> : name \in LockFiles}
    /\ \A f \in DOMAIN lockFilesToManifest : lockFilesToManifest[f] = lockFilesToManifestMap(f)
    /\ \A c \in DOMAIN calls :
          calls[c].pc = "done" =>
              IF calls[c].kind = "sarif"
              THEN calls[c].Severity = issueSeverity(calls[c].level)
              ELSE calls[c].FilePath = getAbsTargetFilePath(baseDir, calls[c].target)

C20_Witness ==
    /\ Len(calls) = 2
    /\ calls[1].kind = "oss" /\ calls[1].target = <<"pom.xml">> /\ calls[1].pc = "done"
    /\ calls[2].kind = "oss" /\ calls[2].target = <<"pom.xml">> /\ calls[2].pc = "found"
    /\ calls[1].FilePath = <<"pom.xml">>

\* the latest call on the file
LastOp == fileOp[Len(fileOp)]

\* C21: after ensureMcpServerInJson returns without error, the entry of the
\* server in the config file holds the requested command and args, and every
\* override variable of the requested env holds the requested value,
\* whatever the entry held before.
C21_EnsuredEntryHoldsRequest ==
    (fileOp # <<>> /\ LastOp.req.op = "ensure" /\ LastOp.ret = "nil") =>
        /\ LastOp.key \in DOMAIN serversOf(file)
        /\ LET entry == serversOf(file)[LastOp.key]
           IN  /\ entry.command = LastOp.req.command
               /\ entry.args = LastOp.req.args
               /\ \A k \in DOMAIN LastOp.req.env \cap overrideKeys :
                     k \in DOMAIN entry.env /\ entry.env[k] = LastOp.req.env[k]

\* C22: ensureMcpServerInJson and removeMcpServerFromJson change at most the
\* one entry under mcpServers whose key equals the server key up to case:
\* every entry of another key is after the call what it was before, and so
\* is every other root-level field.
C22_OnlyTheServerEntryChanges ==
    (fileOp # <<>> /\ LastOp.ret = "nil") =>
        /\ file.exists /\ file.kind = "object" => file.root = LastOp.before.root
        /\ \A key \in DOMAIN serversOf(LastOp.before) :
              ToLower(key) # ToLower(LastOp.req.serverKey) =>
                  /\ key \in DOMAIN serversOf(file)
                  /\ serversOf(file)[key] = serversOf(LastOp.before)[key]

\* the lines of a text: what precedes each newline, and what follows the last
\* one when that is not empty
TextLines(content) ==
    LET pieces == StringsSplitLines(content, <<>>)
    IN  IF pieces[Len(pieces)] = <<>> THEN SubSeq(pieces, 1, Len(pieces) - 1) ELSE pieces

\* an add of an entry followed by a remove of the same entry, both returning
\* without error
AddedThenRemoved ==
    /\ Len(fileOp) = 2
    /\ fileOp[1].op = "add" /\ fileOp[2].op = "remove"
    /\ fileOp[1].entry = fileOp[2].entry
    /\ fileOp[1].ret = "nil" /\ fileOp[2].ret = "nil"

\* C24: after addToGitIgnore and then removeFromGitIgnore of the same entry
\* the .gitignore is clean: no line of it is the entry, and its other lines
\* are the other lines of the original file, in their order.
C24_GitIgnoreRoundTrip ==
    AddedThenRemoved =>
        LET entry == fileOp[1].entry
            original == TextLines(fileOp[1].before.content)
            final == TextLines(file.content)
        IN  /\ \A i \in 1..Len(final) : final[i] # entry
            /\ filterEntry(final, entry) = filterEntry(original, entry)

\* C23: Start blocks until the server is stopped via Shutdown: Start has not
\* returned while Run or ListenAndServe is serving, and once Shutdown has
\* returned on a serving server, Start eventually returns.
C23_StartBlocksUntilShutdown ==
    /\ [](binding.start = "returned" => ~binding.up)
    /\ ((binding.shutdown = "returned" /\ binding.shutdownAt = "serving")
            ~> (binding.start = "returned"))

\* C29: once Shutdown, called on a server that Start has brought to serve
\* over SSE, has returned, Started() reports false, however the steps of the
\* goroutine spawned by HandleSseServer fall.
C29_NotStartedAfterShutdown ==
    ( /\ binding.transport = "sse"
      /\ binding.shutdownAt = "serving"
      /\ binding.reported.made /\ binding.reported.afterShutdown )
        => ~binding.reported.value

\* C25: runSnyk reports an error exactly when the CLI process exited with a
\* code greater than 1 or could not be run; exit codes 0 and 1 give the
\* captured output and no error.
C25_RunSnykErrors ==
    tool # <<>> =>
        \A i \in 1..Len(tool.runs) :
            LET process == tool.runs[i].process
                ran == tool.runs[i].ran
            IN  /\ ran.err # "nil" <=>
                      \/ process.kind = "exit" /\ process.exitCode > 1
                      \/ process.kind = "failed"
                /\ (process.kind = "exit" /\ process.exitCode \in {0, 1}) =>
                      ran.err = "nil" /\ ran.output = process.stdout

C25_Witness ==
    /\ tool # <<>> /\ Len(tool.runs) = 2
    /\ tool.runs[1].process.kind = "exit" /\ tool.runs[1].process.exitCode = 2
    /\ tool.runs[1].ran.err = "err"
    /\ tool.runs[2].process.kind = "exit" /\ tool.runs[2].process.exitCode = 1
    /\ tool.runs[2].ran.err = "nil" /\ tool.runs[2].ran.output = <<"text">>

\* the events before the first run of the CLI
BeforeRun(events) ==
    IF \E i \in 1..Len(events) : events[i] = "run"
    THEN SubSeq(events, 1, (CHOOSE i \in 1..Len(events) :
                               events[i] = "run" /\ \A j \in 1..(i - 1) : events[j] # "run") - 1)
    ELSE events

HasRun == tool # <<>> /\ \E i \in 1..Len(tool.events) : tool.events[i] = "run"

\* the gates that apply to a call, in the order of the claim
GatesOf(t, commandGate) ==
    (IF t.DisableTrustFlag \/ t.IgnoreTrust THEN <<>> ELSE <<"trusted">>)
    \o (IF t.IgnoreAuth THEN <<>> ELSE <<"authenticated">>)
    \o (IF commandGate THEN <<"verified">> ELSE <<>>)

\* the statement of C26 as the claim has it: before the CLI runs, a supplied
\* "command" argument is a valid python binary name
C26_Original ==
    HasRun =>
        (tool.command.supplied =>
            tool.command.kind = "string" /\ reMatchString(Base(tool.command.str)))

\* C26: the CLI runs only after every gate that applies has passed, in the
\* order trust, authentication, command; the command gate is that a supplied
\* "command" argument, when it is a string, has the name of a python binary
\* as its base name (an argument that is no string passes).  When a gate
\* fails, the call returns a text result and the CLI has not run.
C26_GatesBeforeCli ==
    tool # <<>> =>
        /\ HasRun =>
              /\ BeforeRun(tool.events) = GatesOf(tool, tool.command.supplied)
              /\ (tool.command.supplied /\ tool.command.kind = "string") =>
                    reMatchString(Base(tool.command.str))
        /\ (tool.pc = "returned" /\ ~HasRun /\ tool.result # "error") =>
              /\ tool.result = "text"
              /\ tool.runs = <<>>
              /\ tool.events # GatesOf(tool, tool.command.supplied)

C26_Witness ==
    /\ HasRun
    /\ tool.events = <<"trusted", "authenticated", "verified", "run">>
    /\ tool.command.str = <<Sep, "venv", Sep, "python", "3", ".", "11", ".exe">>

\* the output holds the error code as it is written in the code; in
\* whatever letter case
ContainsCode(output) == StringsContains(output, <<"s", "nyk-code-0005">>)
ContainsCodeAnyCase(output) ==
    \/ StringsContains(output, <<"s", "nyk-code-0005">>)
    \/ StringsContains(output, <<"S", "nyk-code-0005">>)

\* the conditions of the retry, the error code being looked for by `has`
RetryConditions(has(_)) ==
    /\ Len(tool.runs) >= 1
    /\ tool.runs[1].ran.err # "nil"
    /\ has(tool.runs[1].ran.output)
    /\ tool.name = ToolNameCodeTest
    /\ tool.orgId # ""
    /\ tool.enabled

\* the statement of C27 as the claim has it: the output contains
\* 'snyk-code-0005'
C27_Original ==
    tool # <<>> =>
        /\ Len(tool.runs) <= 2
        /\ Len(tool.runs) = 2 => RetryConditions(ContainsCode)
        /\ (tool.pc = "returned" /\ RetryConditions(ContainsCode)) =>
              Len(tool.runs) = 2

\* C27: within one tool call the CLI runs at most twice; the second run
\* happens only when the first run failed with output that contains
\* 'snyk-code-0005' in whatever letter case, the tool is the code test tool,
\* an organization id is configured and enabling Snyk Code succeeded; and
\* then it happens exactly once.
C27_AtMostOneRetry ==
    tool # <<>> =>
        /\ Len(tool.runs) <= 2
        /\ Len(tool.runs) = 2 => RetryConditions(ContainsCodeAnyCase)
        /\ (tool.pc = "returned" /\ RetryConditions(ContainsCodeAnyCase)) =>
              Len(tool.runs) = 2

C27_Witness ==
    /\ tool # <<>> /\ tool.pc = "returned" /\ Len(tool.runs) = 2
    /\ tool.runs[1].ran.output = <<"S", "nyk-code-0005", "text">>
    /\ tool.enabled /\ tool.result = "output"

\* C30: writeGlobalRules is idempotent: a second call with the same rules
\* content leaves the target file as the first call left it, whatever the
\* file held at first.
C30_WriteGlobalRulesIdempotent ==
    ( /\ Len(fileOp) = 2
      /\ fileOp[1].rules = fileOp[2].rules
      /\ fileOp[1].ret = "nil" /\ fileOp[2].ret = "nil" )
        => file = fileOp[2].before

\* toIssues over the locations locs with the flag given, from (issues, errs) = acc
RECURSIVE ConvertLocationsWith(_, _, _)
ConvertLocationsWith(locs, flag, acc) ==
    IF locs = <<>> THEN acc
    ELSE ConvertLocationsWith(Tail(locs), flag,
             toIssuesLocation(Head(locs), flag, rules, baseDir, acc.issues, acc.errs))

\* ConvertToIssue over the vulnerabilities vulns with the flag given; a new
\* scan result starts with an empty duplicateCheckMap
RECURSIVE ConvertVulnerabilitiesWith(_, _, _)
ConvertVulnerabilitiesWith(vulns, flag, acc) ==
    IF vulns = <<>> THEN acc
    ELSE LET v == Head(vulns)
             out == convertScanResultVulnerability(v.issue, flag, baseDir, v.target,
                        acc.issues, IF v.res = acc.res THEN acc.map ELSE {})
         IN  ConvertVulnerabilitiesWith(Tail(vulns), flag,
                 [issues |-> out.issues, map |-> out.map, res |-> v.res])

\* the Issues the call returns for the input it went over, with the flag given
IssuesWith(flag) ==
    IF IsSarif
    THEN LET acc == ConvertLocationsWith(seen, flag, [issues |-> <<>>, errs |-> <<>>])
         IN  sarifReturn(acc.issues, acc.errs).issues
    ELSE ConvertVulnerabilitiesWith(seen, flag, [issues |-> <<>>, map |-> {}, res |-> 0]).issues

NotIgnored(issue) == ~issue.IsIgnored

\* C28: for any input and either converter, the Issues returned with
\* includeIgnores=false are those returned with includeIgnores=true without
\* the ones that have IsIgnored set, in the same order.
C28_WithoutIgnoresIsWithIgnoresFiltered ==
    Returned =>
        /\ retIssues = IssuesWith(includeIgnores)
        /\ IssuesWith(FALSE) = SelectSeq(IssuesWith(TRUE), NotIgnored)

====
